---- MODULE Spec2Model ----
(***************************************************************************)
(* A model of codeowners-git: the single-owner branch operation            *)
(* (src/commands/branch.ts), the multi-owner orchestrator                  *)
(* (src/commands/multi-branch.ts), the operation state store               *)
(* (src/utils/state.ts) and the recovery engine (src/commands/recover.ts), *)
(* running against an abstract git repository (src/utils/git.ts).          *)
(*                                                                         *)
(* The repository is a current branch, a set of branches, one tree per     *)
(* branch, an index and a working tree; a tree maps every file to a        *)
(* content.  Each awaited git call and each state-store write of the       *)
(* commands is one step, so that the process can be killed between any two *)
(* of them.                                                                *)
(*                                                                         *)
(* One behaviour is one command (branch or multi-branch) started on a      *)
(* repository with pending edits, run to its end or killed, and followed   *)
(* by runs of recover.                                                     *)
(*                                                                         *)
(* Fault model: createBranch, git add, git commit, git push, the per-file  *)
(* restore of restoreFilesFromBranch and the checkout of recover may fail  *)
(* on their own; git checkout also fails, as git does, when a file that    *)
(* differs between the two branches carries a local change, and git branch *)
(* -D fails on the checked-out branch.                                     *)
(*                                                                         *)
(* Further specifications over the same state: SpecOptions runs the        *)
(* commands with every option (pull requests, filters, signals),           *)
(* SpecRecover runs recover on a storage with several records, SpecStore   *)
(* calls the state store directly, SpecNames derives the branch name and   *)
(* the commit message of one owner, SpecConcurrent lets recover run beside *)
(* the running command, and SpecLive is a multi-branch run under weak      *)
(* fairness of its steps.                                                  *)
(***************************************************************************)
EXTENDS Integers, Sequences, FiniteSets, TLC

\* ------------------------------------------------------------------ bounds
\* Number of git calls that fail on their own in one behaviour.
MaxFaults == 2

\* Number of updates that a caller of the state store makes to its record.
MaxCalls == 3

\* ------------------------------------------------------------ the inputs
Files == {"a", "b", "c", "d"}

\* git status lists paths in sorted order
FileOrder == <<"a", "b", "c", "d">>

\* The CODEOWNERS mapping of the working directory: one file per owner, one
\* file with two owners, one file without owner.
Codeowners == [a |-> <<"A">>, b |-> <<"B">>, c |-> <<"A", "B">>, d |-> <<>>]

\* "D" is an owner that no CODEOWNERS rule names (a --default-owner).
OwnerIds == {"A", "B", "D"}

\* File contents: the content on main, the user's pending edit, and a content
\* committed earlier on another branch.
BaseContent == "base"
EditContent == "edit"
OtherContent == "other"
Contents == {BaseContent, EditContent, OtherContent}

MainBranch == "main"
BranchNames == {"main", "x/A", "x/B", "x/D"}

Range(s) == {s[i] : i \in 1..Len(s)}

\* ------------------------------------------------- src/utils/codeowners.ts
getOwner(file) == Codeowners[file]

\* ------------------------------------------------------- src/utils/git.ts
\* A repository r is a record [cur, branches, trees, index, wt, log, remote,
\* prs]: remote is the set of branches pushed to the remote, prs the set of
\* branches with a pull request on GitHub.

getChangedFiles(r) == {f \in Files : r.wt[f] # r.index[f]}

getStagedFiles(r) == {f \in Files : r.index[f] # r.trees[r.cur][f]}

hasStagedChanges(r) == getStagedFiles(r) # {}

branchExists(r, name) == name \in r.branches

getCurrentBranch(r) == r.cur

\* git checkout <name>: refused when the branch is missing or when a file that
\* differs between HEAD and <name> has a staged or unstaged change.
CheckoutAllowed(r, name) ==
    /\ name \in r.branches
    /\ \A f \in Files :
          r.trees[r.cur][f] # r.trees[name][f]
             => (r.index[f] = r.trees[r.cur][f] /\ r.wt[f] = r.index[f])

checkout(r, name) ==
    LET differs(f) == r.trees[r.cur][f] # r.trees[name][f]
    IN  [r EXCEPT !.cur = name,
                  !.index = [f \in Files |-> IF differs(f) THEN r.trees[name][f]
                                                         ELSE r.index[f]],
                  !.wt = [f \in Files |-> IF differs(f) THEN r.trees[name][f]
                                                      ELSE r.wt[f]]]

\* git checkout -b <name>: the new branch starts at HEAD; index and working
\* tree are kept.
createBranch(r, name) ==
    [r EXCEPT !.cur = name,
              !.branches = @ \cup {name},
              !.trees = [@ EXCEPT ![name] = r.trees[r.cur]],
              !.log = [@ EXCEPT ![name] = <<>>]]

\* A blanket add (git add -A) in place of the add of the given files.
gitAdd_all(r, files) == [r EXCEPT !.index = r.wt]

\* git add <files>
gitAdd(r, files) ==
    [r EXCEPT !.index = [f \in Files |-> IF f \in files THEN r.wt[f] ELSE r.index[f]]]

\* git commit: commits the whole index to the current branch; the commit's
\* changed-file list is what the index changes with respect to HEAD.
gitCommit(r) ==
    [r EXCEPT !.trees = [@ EXCEPT ![r.cur] = r.index],
              !.log = [@ EXCEPT ![r.cur] = Append(@, getStagedFiles(r))]]

\* git push <remote> <branch>
pushBranch(r, name) == [r EXCEPT !.remote = @ \cup {name}]

\* git checkout <branch> -- <file>
gitCheckoutPath(r, name, file) ==
    [r EXCEPT !.index = [@ EXCEPT ![file] = r.trees[name][file]],
              !.wt = [@ EXCEPT ![file] = r.trees[name][file]]]

\* The restored files are left staged.
gitRestoreStaged_skipped(r, files) == r

\* git restore --staged <files>
gitRestoreStaged(r, files) ==
    [r EXCEPT !.index = [f \in Files |-> IF f \in files THEN r.trees[r.cur][f]
                                                      ELSE r.index[f]]]

\* deleteBranch(name, force): git branch -D refuses the checked-out branch;
\* the error is swallowed and the branch stays.
deleteBranch(r, name) ==
    IF branchExists(r, name) /\ name # r.cur
    THEN [r EXCEPT !.branches = @ \ {name}]
    ELSE r

\* ------------------------------------------------ src/utils/codeowners.ts
\* Files without owner go to every owner.
getOwnerFiles_unownedToAll(r, owner, includeUnowned) ==
    {f \in getChangedFiles(r) :
        \/ Len(getOwner(f)) = 0
        \/ owner \in Range(getOwner(f))}

\* codeowners.ts 29-40
getOwnerFiles(r, owner, includeUnowned) ==
    {f \in getChangedFiles(r) :
        \/ (includeUnowned /\ Len(getOwner(f)) = 0)
        \/ owner \in Range(getOwner(f))}

\* ----------------------------------------------------- src/utils/state.ts
\* The store maps every operation id to its record, or to NoRecord when no
\* state file with that id exists.
NoRecord == [id |-> 0]

\* One command runs in a behaviour, so one id is handed out.
OpIds == {1}

Field(updates, key, default) == IF key \in DOMAIN updates THEN updates[key] ELSE default

\* Object.assign(target, updates)
Assign(target, updates) ==
    [k \in DOMAIN target |-> IF k \in DOMAIN updates THEN updates[k] ELSE target[k]]

loadOperationState(st, id) == IF id \in DOMAIN st THEN st[id] ELSE NoRecord

\* The write stays in a buffer of the process and is lost with it.
saveOperationState_buffered(st, state) == st

\* state.ts 109-112: writeFileSync has written the file when it returns
saveOperationState(st, state) == [st EXCEPT ![state.id] = state]

deleteOperationState(st, id) ==
    IF id \in DOMAIN st THEN [st EXCEPT ![id] = NoRecord] ELSE st

\* The timestamp of a record is its creation tick; ids are handed out in
\* creation order.
createOperationState(st, id, operation, originalBranch, options) ==
    saveOperationState(st, [id |-> id,
                            timestamp |-> id,
                            operation |-> operation,
                            originalBranch |-> originalBranch,
                            currentState |-> "initializing",
                            branches |-> <<>>,
                            options |-> options])

\* updateOperationState and updateBranchState throw when the record is gone.
StateMissing(st, id) == loadOperationState(st, id) = NoRecord

updateOperationState(st, id, updates) ==
    saveOperationState(st, Assign(loadOperationState(st, id), updates))

NewBranchState(branchName, updates) ==
    [name |-> branchName,
     owner |-> Field(updates, "owner", ""),
     created |-> Field(updates, "created", FALSE),
     committed |-> Field(updates, "committed", FALSE),
     pushed |-> Field(updates, "pushed", FALSE),
     prCreated |-> Field(updates, "prCreated", FALSE),
     files |-> Field(updates, "files", {}),
     error |-> Field(updates, "error", "")]

updateBranchState(st, id, branchName, updates) ==
    LET state == loadOperationState(st, id)
        found == {i \in 1..Len(state.branches) : state.branches[i].name = branchName}
        first == CHOOSE i \in found : \A j \in found : i <= j
        branches == IF found # {}
                    THEN [state.branches EXCEPT ![first] = Assign(@, updates)]
                    ELSE Append(state.branches, NewBranchState(branchName, updates))
    IN  saveOperationState(st, [state EXCEPT !.branches = branches])

\* The record of a failed operation is removed.
failOperation_removes(st, id, error) == deleteOperationState(st, id)

\* state.ts 236-252
failOperation(st, id, error) ==
    LET state == loadOperationState(st, id)
        n == Len(state.branches)
    IN  IF state = NoRecord THEN st
        ELSE saveOperationState(st,
               [state EXCEPT !.currentState = "failed",
                             !.branches = IF error # "" /\ n > 0
                                          THEN [@ EXCEPT ![n].error = error]
                                          ELSE @])

RECURSIVE SortNewestFirst(_)
SortNewestFirst(states) ==
    IF states = {} THEN <<>>
    ELSE LET newest == CHOOSE s \in states : \A t \in states : s.timestamp >= t.timestamp
         IN  <<newest>> \o SortNewestFirst(states \ {newest})

listOperationStates(st) ==
    SortNewestFirst({st[i] : i \in {j \in DOMAIN st : st[j] # NoRecord}})

getIncompleteOperations(st) ==
    SelectSeq(listOperationStates(st), LAMBDA s : s.currentState # "complete")

\* ------------------------------------------------------------- the state
VARIABLES
    repo,      \* the git repository of the working directory
    store,     \* ~/.codeowners-git/state/<project-hash>/: id -> record
    nextId,    \* the next fresh operation id (randomUUID)
    started,   \* whether the branch / multi-branch command was started
    faults,    \* number of git calls that have failed on their own so far
    br,        \* the frame of the running (or last) call of branch()
    mb,        \* the frame of the running (or last) call of multiBranch()
    rc,        \* what the last run of recover did
    changeSet, \* the change-set the user started with: the files edited
    io,        \* the signal handling of the process and what it reported
    api,       \* a caller of the state store: what it wrote and what it read
    derived    \* the names that multiBranch derives for the owner at hand

vars ==
    <<repo, store, nextId, started, faults, br, mb, rc, changeSet, io, api, derived>>

NoResult == [success |-> FALSE, error |-> "none"]

IdleBranch ==
    [pc |-> "idle", sub |-> FALSE, owner |-> "", branch |-> "",
     append |-> FALSE, push |-> FALSE, keepBranchOnFailure |-> FALSE,
     isDefaultOwner |-> FALSE, opId |-> 0, originalBranch |-> "",
     newBranchCreated |-> FALSE, commitSucceeded |-> FALSE,
     filesToCommit |-> {}, pushed |-> FALSE, branchAlreadyExists |-> FALSE,
     err |-> "", todo |-> {}, result |-> NoResult,
     missing |-> FALSE, pr |-> FALSE, draftPr |-> FALSE, prCreated |-> FALSE,
     \* history of the call, for the properties
     entryBranch |-> "", entryFiles |-> {}, entryLog |-> <<>>,
     entryBranches |-> {}, restoreFailed |-> {}, prFailed |-> FALSE,
     entryRepo |-> <<>>, entryStore |-> <<>>]

IdleMulti ==
    [pc |-> "idle", append |-> FALSE, push |-> FALSE,
     keepBranchOnFailure |-> FALSE, defaultOwner |-> "", opId |-> 0,
     codeowners |-> <<>>, idx |-> 0,
     success |-> <<>>, failure |-> <<>>, prSuccess |-> <<>>,
     missing |-> FALSE, ignore |-> <<>>, include |-> <<>>,
     pr |-> FALSE, draftPr |-> FALSE, err |-> "",
     \* history of the run: the structured result of every sub-operation,
     \* the owners before the filter, and the branches and their commits when
     \* the run began
     subResults |-> <<>>, found |-> <<>>, entryBranches |-> {},
     entryLog |-> [b \in BranchNames |-> <<>>]]

NoRecover == [outcome |-> "none", record |-> NoRecord, keepBranches |-> FALSE,
              before |-> {}, beforeCur |-> ""]

\* No caller of the state store is followed.
NoCaller == [phase |-> "idle"]

\* No owner is at hand.
NoNames == [phase |-> "idle"]

\* The process has received no signal.
NoIo == [signalled |-> FALSE, exit |-> 0, reported |-> <<>>]

\* multi-branch.ts 152-157: the branch of an owner, for the base branch "x";
\* the leading "@" of an owner is stripped, so "@A" shares the branch of "A"
BranchOf == [A |-> "x/A", B |-> "x/B", D |-> "x/D"] @@ ("@A" :> "x/A")

\* The branch that the i-th stored record of an earlier command worked on.
StoredBranch == <<"x/A", "x/B", "x/D">>

BranchEnded == br.pc \in {"idle", "returned", "exited", "killed", "interrupted"}
MultiEnded == mb.pc \in {"idle", "done", "exited", "killed", "interrupted"}
Idle == BranchEnded /\ MultiEnded

EmptyLog == [b \in BranchNames |-> <<>>]
BaseTree == [f \in Files |-> BaseContent]

\* The repository before the command: on main, with a set of edited files,
\* possibly one of them staged, and possibly an older branch x/A that either
\* equals main or carries another content of file a.
InitRepos ==
    {[cur |-> MainBranch,
      branches |-> {MainBranch} \cup pre,
      trees |-> [b \in BranchNames |-> IF b = "x/A" /\ b \in pre THEN old ELSE BaseTree],
      index |-> [f \in Files |-> IF f \in staged THEN EditContent ELSE BaseContent],
      wt |-> [f \in Files |-> IF f \in changed \cup staged THEN EditContent ELSE BaseContent],
      log |-> EmptyLog,
      remote |-> {},
      prs |-> {}] :
        pre \in {{}, {"x/A"}},
        old \in {BaseTree, [BaseTree EXCEPT !["a"] = OtherContent]},
        changed \in SUBSET Files,
        staged \in {{}, {"b"}}}

Init ==
    /\ repo \in InitRepos
    /\ store = [i \in OpIds |-> NoRecord]
    /\ nextId = 1
    /\ started = FALSE
    /\ faults = 0
    /\ br = IdleBranch
    /\ mb = IdleMulti
    /\ rc = NoRecover
    /\ changeSet = {f \in Files : repo.wt[f] = EditContent}
    /\ io = NoIo
    /\ api = NoCaller
    /\ derived = NoNames

\* ------------------------------------------- src/commands/branch.ts: branch
\* The frame of a fresh call of branch().
NewBranchCall(sub, owner, branchName, append, push, keep, isDefault, opId) ==
    [IdleBranch EXCEPT
        !.pc = "validate", !.sub = sub, !.owner = owner, !.branch = branchName,
        !.append = append, !.push = push, !.keepBranchOnFailure = keep,
        !.isDefaultOwner = isDefault, !.opId = opId,
        !.entryBranch = repo.cur,
        !.entryFiles = getOwnerFiles(repo, owner, isDefault),
        !.entryLog = repo.log[branchName],
        !.entryBranches = repo.branches,
        !.entryRepo = repo,
        !.entryStore = store]

\* branch.ts 380-411, the outer catch: a sub-operation returns a structured
\* failure and goes on to the finally block; a standalone call ends in
\* process.exit(1), which does not return.
OuterCatch(f) ==
    IF f.sub
    THEN [f EXCEPT !.pc = "finally", !.result = [success |-> FALSE, error |-> f.err]]
    ELSE [f EXCEPT !.pc = "exited", !.result = [success |-> FALSE, error |-> f.err]]

\* The cleanup runs whether or not this call created the branch.
EnterCleanup_always(f) == [f EXCEPT !.pc = "c_checkout"]

\* branch.ts 323-324 and 378: cleanup only when this call created the branch,
\* then the error is thrown again.
EnterCleanup(f) ==
    IF f.newBranchCreated THEN [f EXCEPT !.pc = "c_checkout"] ELSE OuterCatch(f)

\* branch.ts 314-321, the inner catch: a standalone call first marks its
\* record failed.
InnerCatch(f, error) ==
    LET g == [f EXCEPT !.err = error]
    IN  IF g.sub THEN EnterCleanup(g) ELSE [g EXCEPT !.pc = "c_fail"]

\* A git call may fail on its own while the fault budget lasts.
MayFail(ok) ==
    /\ ok \/ faults < MaxFaults
    /\ faults' = IF ok THEN faults ELSE faults + 1

\* The command `branch` is started by the user.
BranchStart ==
    /\ Idle
    /\ ~started
    /\ \E owner \in OwnerIds, append \in BOOLEAN, push \in BOOLEAN,
          keep \in BOOLEAN, isDefault \in BOOLEAN :
          br' = NewBranchCall(FALSE, owner, BranchOf[owner], append, push, keep,
                              isDefault, 0)
    /\ started' = TRUE
    /\ mb' = IdleMulti
    /\ UNCHANGED <<repo, store, nextId, faults, rc, changeSet, io, api, derived>>

\* --pr without --push is let through.
ValidateBranch_prWithoutPush(f, r) ==
    IF f.missing THEN "Missing required options"
    ELSE IF f.pr /\ f.draftPr THEN "Cannot use both --pr and --draft-pr"
    ELSE IF hasStagedChanges(r) THEN "Staged changes detected"
    ELSE ""

\* branch.ts 68-95: the error of the first validation that fails, or ""
ValidateBranch(f, r) ==
    IF f.missing THEN "Missing required options"
    ELSE IF (f.pr \/ f.draftPr) /\ ~f.push THEN "Pull request creation requires --push"
    ELSE IF f.pr /\ f.draftPr THEN "Cannot use both --pr and --draft-pr"
    ELSE IF hasStagedChanges(r) THEN "Staged changes detected"
    ELSE ""

\* branch.ts 68-105
B_Validate ==
    /\ br.pc = "validate"
    /\ br' = IF ValidateBranch(br, repo) # ""
             THEN OuterCatch([br EXCEPT !.err = ValidateBranch(br, repo)])
             ELSE [br EXCEPT !.originalBranch = getCurrentBranch(repo),
                             !.pc = IF br.sub THEN "getFiles" ELSE "createState"]
    /\ UNCHANGED <<repo, store, nextId, started, faults, mb, rc, changeSet, io, api, derived>>

\* branch.ts 107-119
B_CreateState ==
    /\ br.pc = "createState"
    /\ store' = createOperationState(store, nextId, "branch", br.originalBranch,
                    [push |-> br.push, keepBranchOnFailure |-> br.keepBranchOnFailure])
    /\ nextId' = nextId + 1
    /\ br' = [br EXCEPT !.opId = nextId, !.pc = "getFiles"]
    /\ UNCHANGED <<repo, started, faults, mb, rc, changeSet, io, api, derived>>

\* An existing branch is taken over without --append.
RejectExisting_never(exists, append) == FALSE

\* branch.ts 145: a branch that exists is refused without --append
RejectExisting(exists, append) == exists /\ ~append

\* branch.ts 121-149
B_GetFiles ==
    /\ br.pc = "getFiles"
    /\ LET files == getOwnerFiles(repo, br.owner, br.isDefaultOwner)
           exists == branchExists(repo, br.branch)
           f == [br EXCEPT !.filesToCommit = files, !.branchAlreadyExists = exists]
       IN  br' = IF files = {}
                 THEN [f EXCEPT !.pc = "finally",
                                !.branchAlreadyExists = FALSE,
                                !.result = [success |-> FALSE,
                                            error |-> "No files found for this owner"]]
                 ELSE IF RejectExisting(exists, br.append)
                 THEN OuterCatch([f EXCEPT !.err = "already exists"])
                 ELSE [f EXCEPT !.pc = "stCreating"]
    /\ UNCHANGED <<repo, store, nextId, started, faults, mb, rc, changeSet, io, api, derived>>

\* A state-store write inside the inner try block: it throws when the record
\* is gone.
StoreStep(from, to, newStore) ==
    /\ br.pc = from
    /\ IF StateMissing(store, br.opId)
       THEN /\ br' = InnerCatch(br, "Operation state not found")
            /\ store' = store
       ELSE /\ br' = [br EXCEPT !.pc = to]
            /\ store' = newStore
    /\ UNCHANGED <<repo, nextId, started, faults, mb, rc, changeSet, io, api, derived>>

\* branch.ts 153-156
B_StCreating ==
    StoreStep("stCreating", "stBranch",
              updateOperationState(store, br.opId, [currentState |-> "creating-branch"]))

\* branch.ts 157-165
B_StBranch ==
    StoreStep("stBranch", "create",
              updateBranchState(store, br.opId, br.branch,
                  [name |-> br.branch, owner |-> br.owner, files |-> br.filesToCommit,
                   created |-> FALSE, committed |-> FALSE, pushed |-> FALSE,
                   prCreated |-> FALSE]))

\* branch.ts 168-176; git checkout -b fails when the branch exists (git.ts
\* 129-137)
B_Create ==
    /\ br.pc = "create"
    /\ IF br.branchAlreadyExists /\ br.append
       THEN /\ faults' = faults
            /\ IF CheckoutAllowed(repo, br.branch)
               THEN /\ repo' = checkout(repo, br.branch)
                    /\ br' = [br EXCEPT !.pc = "stCommitting"]
               ELSE /\ repo' = repo
                    /\ br' = InnerCatch(br, "Failed to checkout branch")
       ELSE \E ok \in BOOLEAN :
              /\ MayFail(ok)
              /\ ok => ~branchExists(repo, br.branch)
              /\ IF ok
                 THEN /\ repo' = createBranch(repo, br.branch)
                      /\ br' = [br EXCEPT !.newBranchCreated = TRUE, !.pc = "stCreated"]
                 ELSE /\ repo' = repo
                      /\ br' = InnerCatch(br, "Failed to create branch")
    /\ UNCHANGED <<store, nextId, started, mb, rc, changeSet, io, api, derived>>

\* branch.ts 179-183
B_StCreated ==
    StoreStep("stCreated", "stCommitting",
              updateBranchState(store, br.opId, br.branch, [created |-> TRUE]))

\* The stage of the commit is not written before the commit.
B_StCommitting_skipped == StoreStep("stCommitting", "add", store)

\* branch.ts 187-189
B_StCommitting ==
    StoreStep("stCommitting", "add",
              updateOperationState(store, br.opId, [currentState |-> "committing"]))

\* git.ts 221, in commitChanges called at branch.ts 196
B_Add ==
    /\ br.pc = "add"
    /\ \E ok \in BOOLEAN :
          /\ MayFail(ok)
          /\ IF ok
             THEN /\ repo' = gitAdd(repo, br.filesToCommit)
                  /\ br' = [br EXCEPT !.pc = "commit"]
             ELSE /\ repo' = repo
                  /\ br' = InnerCatch(br, "Commit failed")
    /\ UNCHANGED <<store, nextId, started, mb, rc, changeSet, io, api, derived>>

\* git.ts 224, in commitChanges called at branch.ts 196; branch.ts 200
B_Commit ==
    /\ br.pc = "commit"
    /\ \E ok \in BOOLEAN :
          /\ MayFail(ok)
          /\ IF ok
             THEN /\ repo' = gitCommit(repo)
                  /\ br' = [br EXCEPT !.commitSucceeded = TRUE, !.pc = "stCommitted"]
             ELSE /\ repo' = repo
                  /\ br' = InnerCatch(br, "Commit failed")
    /\ UNCHANGED <<store, nextId, started, mb, rc, changeSet, io, api, derived>>

\* branch.ts 203-210
B_StCommitted ==
    StoreStep("stCommitted", IF br.push THEN "stPushing" ELSE "back",
              updateBranchState(store, br.opId, br.branch, [committed |-> TRUE]))

\* branch.ts 211-213
B_StPushing ==
    StoreStep("stPushing", "push",
              updateOperationState(store, br.opId, [currentState |-> "pushing"]))

\* branch.ts 215-221
B_Push ==
    /\ br.pc = "push"
    /\ \E ok \in BOOLEAN :
          /\ MayFail(ok)
          /\ IF ok
             THEN /\ repo' = pushBranch(repo, br.branch)
                  /\ br' = [br EXCEPT !.pushed = TRUE, !.pc = "stPushed"]
             ELSE /\ repo' = repo
                  /\ br' = InnerCatch(br, "Push failed")
    /\ UNCHANGED <<store, nextId, started, mb, rc, changeSet, io, api, derived>>

\* branch.ts 224-232
B_StPushed ==
    StoreStep("stPushed",
              IF (br.pr \/ br.draftPr) /\ br.push THEN "stCreatingPr" ELSE "back",
              updateBranchState(store, br.opId, br.branch, [pushed |-> TRUE]))

\* branch.ts 233-238; when the record is gone the catch of lines 265-277
\* throws in turn, out of the inner try block
B_StCreatingPr ==
    StoreStep("stCreatingPr", "createPr",
              updateOperationState(store, br.opId, [currentState |-> "creating-pr"]))

\* github.ts 140-164 with 65-133: gh pr create
createPullRequest(r, head) == [r EXCEPT !.prs = @ \cup {head}]

\* branch.ts 240-257 and 265-269: the pull request is created, or the error
\* of gh is caught
B_CreatePr ==
    /\ br.pc = "createPr"
    /\ \E ok \in BOOLEAN :
          /\ MayFail(ok)
          /\ IF ok
             THEN /\ repo' = createPullRequest(repo, br.branch)
                  /\ br' = [br EXCEPT !.prCreated = TRUE, !.pc = "stPrCreated"]
             ELSE /\ repo' = repo
                  /\ br' = [br EXCEPT !.prFailed = TRUE, !.pc = "stPrError"]
    /\ UNCHANGED <<store, nextId, started, mb, rc, changeSet, io, api, derived>>

\* branch.ts 258-263
B_StPrCreated ==
    StoreStep("stPrCreated", "back",
              updateBranchState(store, br.opId, br.branch, [prCreated |-> TRUE]))

\* The failed pull request undoes the record of the push.
PrErrorUpdates_unpushed == [error |-> "PR creation failed", pushed |-> FALSE]

\* branch.ts 273-275: what the catch writes to the BranchState
PrErrorUpdates == [error |-> "PR creation failed"]

\* branch.ts 265-277
B_StPrError ==
    StoreStep("stPrError", "back",
              updateBranchState(store, br.opId, br.branch, PrErrorUpdates))

\* branch.ts 281-283 and, for a sub-operation, 304-313
B_Back ==
    /\ br.pc = "back"
    /\ IF CheckoutAllowed(repo, br.originalBranch)
       THEN /\ repo' = checkout(repo, br.originalBranch)
            /\ br' = IF br.sub
                     THEN [br EXCEPT !.pc = "finally",
                                     !.result = [success |-> TRUE, error |-> ""]]
                     ELSE [br EXCEPT !.pc = "complete"]
       ELSE /\ repo' = repo
            /\ br' = InnerCatch(br, "Failed to checkout branch")
    /\ UNCHANGED <<store, nextId, started, faults, mb, rc, changeSet, io, api, derived>>

\* branch.ts 286-287 with state.ts 226: completeOperation marks the record
B_Complete ==
    StoreStep("complete", "completeDelete",
              updateOperationState(store, br.opId, [currentState |-> "complete"]))

\* state.ts 228-230 and branch.ts 304-313: ... and deletes it
B_CompleteDelete ==
    /\ br.pc = "completeDelete"
    /\ store' = deleteOperationState(store, br.opId)
    /\ br' = [br EXCEPT !.pc = "finally", !.result = [success |-> TRUE, error |-> ""]]
    /\ UNCHANGED <<repo, nextId, started, faults, mb, rc, changeSet, io, api, derived>>

\* branch.ts 318-321
C_Fail ==
    /\ br.pc = "c_fail"
    /\ store' = failOperation(store, br.opId, br.err)
    /\ br' = EnterCleanup(br)
    /\ UNCHANGED <<repo, nextId, started, faults, mb, rc, changeSet, io, api, derived>>

\* keepBranchOnFailure is not looked at.
AfterRestore_alwaysDelete(f) == [f EXCEPT !.pc = "c_delete"]

\* branch.ts 362-372: after the files are safe, delete the branch or keep it
AfterRestore(f) ==
    IF ~f.keepBranchOnFailure THEN [f EXCEPT !.pc = "c_delete"] ELSE OuterCatch(f)

\* branch.ts 325-331 and 373-375: a failing checkout ends the cleanup
C_Checkout ==
    /\ br.pc = "c_checkout"
    /\ IF CheckoutAllowed(repo, br.originalBranch)
       THEN /\ repo' = checkout(repo, br.originalBranch)
            /\ br' = IF br.commitSucceeded
                     THEN [br EXCEPT !.pc = "c_restore", !.todo = br.filesToCommit]
                     ELSE AfterRestore(br)
       ELSE /\ repo' = repo
            /\ br' = OuterCatch(br)
    /\ UNCHANGED <<store, nextId, started, faults, mb, rc, changeSet, io, api, derived>>

\* The first file of a set in git status order.
FirstFile(files) ==
    FileOrder[CHOOSE i \in 1..Len(FileOrder) :
                 /\ FileOrder[i] \in files
                 /\ \A j \in 1..(i - 1) : FileOrder[j] \notin files]

\* git.ts 154-160, in restoreFilesFromBranch called at branch.ts 338: one
\* round of the loop; a file that cannot be restored is logged and skipped.
C_Restore ==
    /\ br.pc = "c_restore"
    /\ LET file == FirstFile(br.todo)
           rest == br.todo \ {file}
       IN  \E ok \in BOOLEAN :
             /\ MayFail(ok)
             /\ repo' = IF ok THEN gitCheckoutPath(repo, br.branch, file) ELSE repo
             /\ br' = [br EXCEPT !.todo = rest,
                                 !.restoreFailed = IF ok THEN @ ELSE @ \cup {file},
                                 !.pc = IF rest = {} THEN "c_unstage" ELSE "c_restore"]
    /\ UNCHANGED <<store, nextId, started, mb, rc, changeSet, io, api, derived>>

\* git.ts 163-170, then branch.ts 351-361: restoreFilesFromBranch has caught
\* every error of its git calls, so the catch of branch.ts 339-349 is not
\* entered.
C_Unstage ==
    /\ br.pc = "c_unstage"
    /\ repo' = gitRestoreStaged(repo, br.filesToCommit)
    /\ br' = AfterRestore(br)
    /\ UNCHANGED <<store, nextId, started, faults, mb, rc, changeSet, io, api, derived>>

\* branch.ts 352-355 and 364-366, then 378
C_Delete ==
    /\ br.pc = "c_delete"
    /\ repo' = deleteBranch(repo, br.branch)
    /\ br' = OuterCatch(br)
    /\ UNCHANGED <<store, nextId, started, faults, mb, rc, changeSet, io, api, derived>>

\* The finally block does not go back to the original branch.
F_Finally_skipped ==
    /\ br.pc = "finally"
    /\ br' = [br EXCEPT !.pc = "returned"]
    /\ UNCHANGED <<repo, store, nextId, started, faults, mb, rc, changeSet, io, api, derived>>

\* branch.ts 412-426: the finally block of a call that returns
F_Finally ==
    /\ br.pc = "finally"
    /\ repo' = IF /\ br.originalBranch # ""
                  /\ getCurrentBranch(repo) # br.originalBranch
                  /\ CheckoutAllowed(repo, br.originalBranch)
               THEN checkout(repo, br.originalBranch)
               ELSE repo
    /\ br' = [br EXCEPT !.pc = "returned"]
    /\ UNCHANGED <<store, nextId, started, faults, mb, rc, changeSet, io, api, derived>>

\* ------------------------------- src/commands/multi-branch.ts: multiBranch
RECURSIVE AddOwners(_, _)
\* ownerSet.add for every owner of a list: a Set keeps insertion order
AddOwners(acc, owners) ==
    IF owners = <<>> THEN acc
    ELSE AddOwners(IF Head(owners) \in Range(acc) THEN acc ELSE Append(acc, Head(owners)),
                   Tail(owners))

RECURSIVE CollectOwners(_, _, _)
\* multi-branch.ts 88-102
CollectOwners(i, changed, acc) ==
    IF i > Len(FileOrder) THEN acc
    ELSE CollectOwners(i + 1, changed,
                       IF FileOrder[i] \in changed
                       THEN AddOwners(acc, getOwner(FileOrder[i]))
                       ELSE acc)

\* multi-branch.ts 87-108
DiscoverOwners(changed, defaultOwner) ==
    LET filesWithoutOwners == {f \in changed : Len(getOwner(f)) = 0}
        found == CollectOwners(1, changed, <<>>)
    IN  IF filesWithoutOwners # {} /\ defaultOwner # ""
        THEN Append(found, defaultOwner)
        ELSE found

\* The command `multi-branch` is started by the user.
MultiStart ==
    /\ Idle
    /\ ~started
    /\ \E append \in BOOLEAN, push \in BOOLEAN, keep \in BOOLEAN,
          defaultOwner \in {"", "A", "D"} :
          mb' = [IdleMulti EXCEPT !.pc = "validate", !.append = append,
                                  !.push = push, !.keepBranchOnFailure = keep,
                                  !.defaultOwner = defaultOwner,
                                  !.entryBranches = repo.branches,
                                  !.entryLog = repo.log]
    /\ started' = TRUE
    /\ br' = IdleBranch
    /\ UNCHANGED <<repo, store, nextId, faults, rc, changeSet, io, api, derived>>

\* multi-branch.ts 34-63: the error of the first validation that fails, or ""
ValidateMulti(m, r) ==
    IF m.missing THEN "Missing required options"
    ELSE IF m.ignore # <<>> /\ m.include # <<>>
    THEN "Cannot use both --ignore and --include"
    ELSE IF (m.pr \/ m.draftPr) /\ ~m.push THEN "Pull request creation requires --push"
    ELSE IF m.pr /\ m.draftPr THEN "Cannot use both --pr and --draft-pr"
    ELSE IF hasStagedChanges(r) THEN "Staged changes detected"
    ELSE ""

\* multi-branch.ts 34-65; 226-238 with operationState still null
M_Validate ==
    /\ mb.pc = "validate"
    /\ mb' = IF ValidateMulti(mb, repo) # ""
             THEN [mb EXCEPT !.pc = "exited", !.err = ValidateMulti(mb, repo)]
             ELSE [mb EXCEPT !.pc = "createState"]
    /\ UNCHANGED <<repo, store, nextId, started, faults, br, rc, changeSet, io, api, derived>>

\* multi-branch.ts 67-78
M_CreateState ==
    /\ mb.pc = "createState"
    /\ store' = createOperationState(store, nextId, "multi-branch", getCurrentBranch(repo),
                    [push |-> mb.push, keepBranchOnFailure |-> mb.keepBranchOnFailure])
    /\ nextId' = nextId + 1
    /\ mb' = [mb EXCEPT !.opId = nextId, !.pc = "owners"]
    /\ UNCHANGED <<repo, started, faults, br, rc, changeSet, io, api, derived>>

\* The value of --ignore or --include is a sequence of characters; an owner
\* of the model is named by one character.

RECURSIVE split(_, _)
\* String.prototype.split(sep)
split(str, sep) ==
    IF sep \notin Range(str) THEN <<str>>
    ELSE LET k == CHOOSE i \in 1..Len(str) :
                     str[i] = sep /\ \A j \in 1..(i - 1) : str[j] # sep
         IN  <<SubSeq(str, 1, k - 1)>> \o split(SubSeq(str, k + 1, Len(str)), sep)

RECURSIVE trim(_)
\* String.prototype.trim()
trim(str) ==
    IF str # <<>> /\ Head(str) = " " THEN trim(Tail(str))
    ELSE IF str # <<>> /\ str[Len(str)] = " " THEN trim(SubSeq(str, 1, Len(str) - 1))
    ELSE str

\* The patterns are split and not trimmed.
SplitPatterns_untrimmed(option) == split(option, ",")

\* multi-branch.ts 123 and 127: option.split(',').map(p => p.trim())
SplitPatterns(option) ==
    LET parts == split(option, ",")
    IN  [i \in 1..Len(parts) |-> trim(parts[i])]

\* micromatch.isMatch(owner, patterns), for the patterns "*" and a literal
\* owner name: some pattern of the list matches
isMatch(owner, patterns) ==
    \E i \in 1..Len(patterns) : patterns[i] = <<"*">> \/ patterns[i] = <<owner>>

\* multi-branch.ts 119-130
FilterOwners(codeowners, ignore, include) ==
    IF ignore # <<>>
    THEN SelectSeq(codeowners, LAMBDA owner : ~isMatch(owner, SplitPatterns(ignore)))
    ELSE IF include # <<>>
    THEN SelectSeq(codeowners, LAMBDA owner : isMatch(owner, SplitPatterns(include)))
    ELSE codeowners

\* An empty owner set is an error of the run.
AfterOwners_emptyFails(m, changedFiles, found, codeowners) ==
    IF changedFiles = {} \/ Len(found) = 0 \/ Len(codeowners) = 0
    THEN [m EXCEPT !.found = found, !.pc = "catch"]
    ELSE [m EXCEPT !.found = found, !.codeowners = codeowners, !.idx = 1, !.pc = "loop"]

\* multi-branch.ts 83-85, 110-113 and 132-135: without changed files the run
\* throws; without owners, before or after the filter, it returns
AfterOwners(m, changedFiles, found, codeowners) ==
    IF changedFiles = {} THEN [m EXCEPT !.pc = "catch"]
    ELSE IF Len(found) = 0 THEN [m EXCEPT !.pc = "done"]
    ELSE IF Len(codeowners) = 0 THEN [m EXCEPT !.found = found, !.pc = "done"]
    ELSE [m EXCEPT !.found = found, !.codeowners = codeowners, !.idx = 1, !.pc = "loop"]

\* multi-branch.ts 80-138
M_Owners ==
    /\ mb.pc = "owners"
    /\ LET changedFiles == getChangedFiles(repo)
           found == DiscoverOwners(changedFiles, mb.defaultOwner)
           codeowners == FilterOwners(found, mb.ignore, mb.include)
       IN  mb' = AfterOwners(mb, changedFiles, found, codeowners)
    /\ UNCHANGED <<repo, store, nextId, started, faults, br, rc, changeSet, io, api, derived>>

\* multi-branch.ts 149-180: the next owner's sub-operation is called
M_Call ==
    /\ mb.pc = "loop"
    /\ LET owner == mb.codeowners[mb.idx]
       IN  br' = [NewBranchCall(TRUE, owner, BranchOf[owner], mb.append, mb.push,
                                mb.keepBranchOnFailure, owner = mb.defaultOwner,
                                mb.opId)
                     EXCEPT !.pr = mb.pr, !.draftPr = mb.draftPr]
    /\ mb' = [mb EXCEPT !.pc = "wait"]
    /\ UNCHANGED <<repo, store, nextId, started, faults, rc, changeSet, io, api, derived>>

\* The loop ends at the first sub-operation that fails.
M_Return_stopsAtFailure ==
    /\ mb.pc = "wait"
    /\ br.pc = "returned"
    /\ mb' = [mb EXCEPT !.success = Append(@, mb.codeowners[mb.idx]),
                        !.subResults = Append(@, br.result),
                        !.idx = @ + 1,
                        !.pc = IF mb.idx + 1 > Len(mb.codeowners) \/ ~br.result.success
                               THEN "complete" ELSE "loop"]
    /\ UNCHANGED <<repo, store, nextId, started, faults, br, rc, changeSet, io, api, derived>>

\* multi-branch.ts 182-193: branch() has returned; its result is not looked at
M_Return ==
    /\ mb.pc = "wait"
    /\ br.pc = "returned"
    /\ mb' = [mb EXCEPT !.success = Append(@, mb.codeowners[mb.idx]),
                        !.prSuccess = IF (mb.pr \/ mb.draftPr) /\ mb.push
                                      THEN Append(@, mb.codeowners[mb.idx])
                                      ELSE @,
                        !.subResults = Append(@, br.result),
                        !.idx = @ + 1,
                        !.pc = IF mb.idx + 1 > Len(mb.codeowners) THEN "complete" ELSE "loop"]
    /\ UNCHANGED <<repo, store, nextId, started, faults, br, rc, changeSet, io, api, derived>>

\* multi-branch.ts 222-225 with state.ts 226
M_Complete ==
    /\ mb.pc = "complete"
    /\ IF StateMissing(store, mb.opId)
       THEN /\ mb' = [mb EXCEPT !.pc = "catch"]
            /\ store' = store
       ELSE /\ mb' = [mb EXCEPT !.pc = "completeDelete"]
            /\ store' = updateOperationState(store, mb.opId, [currentState |-> "complete"])
    /\ UNCHANGED <<repo, nextId, started, faults, br, rc, changeSet, io, api, derived>>

\* state.ts 228-230
M_CompleteDelete ==
    /\ mb.pc = "completeDelete"
    /\ store' = deleteOperationState(store, mb.opId)
    /\ mb' = [mb EXCEPT !.pc = "done"]
    /\ UNCHANGED <<repo, nextId, started, faults, br, rc, changeSet, io, api, derived>>

\* The record of the aborted run is removed.
MultiCatch_removes(st, id) == deleteOperationState(st, id)

\* multi-branch.ts 229-232: what the catch of multiBranch does to storage
MultiCatch(st, id) == failOperation(st, id, "Multi-branch operation failed")

\* multi-branch.ts 226-238
M_Catch ==
    /\ mb.pc = "catch"
    /\ store' = MultiCatch(store, mb.opId)
    /\ mb' = [mb EXCEPT !.pc = "exited"]
    /\ UNCHANGED <<repo, nextId, started, faults, br, rc, changeSet, io, api, derived>>

\* --------------------------------------------- src/commands/recover.ts
RECURSIVE DeleteCreated(_, _, _)
\* recover.ts 91-107: every BranchState marked created whose branch exists
\* is deleted
DeleteCreated(r, branchStates, i) ==
    IF i > Len(branchStates) THEN r
    ELSE DeleteCreated(IF branchStates[i].created /\ branchExists(r, branchStates[i].name)
                       THEN deleteBranch(r, branchStates[i].name)
                       ELSE r,
                       branchStates, i + 1)

\* --keep-branches is not looked at.
CleansBranches_always(keepBranches, state) == Len(state.branches) > 0

\* recover.ts 88: step 2 runs without --keep-branches
CleansBranches(keepBranches, state) == ~keepBranches /\ Len(state.branches) > 0

\* The created branches are listed and left alone.
RecoverBranches_none(r, state, keepBranches) == r

\* recover.ts 87-115: step 2 of performRecovery, on the repository r that
\* step 1 leaves
RecoverBranches(r, state, keepBranches) ==
    IF CleansBranches(keepBranches, state)
    THEN DeleteCreated(r, state.branches, 1)
    ELSE r

\* recover.ts 70-85: step 1 of performRecovery fails when the checkout of the
\* original branch throws
ReturnFails(r, state, checkoutOk) ==
    /\ getCurrentBranch(r) # state.originalBranch
    /\ ~(checkoutOk /\ CheckoutAllowed(r, state.originalBranch))

\* The state file is deleted before the checkout of the original branch is
\* known to have worked.
performRecovery_deleteFirst(r, st, state, keepBranches, checkoutOk) ==
    IF ReturnFails(r, state, checkoutOk)
    THEN [repo |-> r, store |-> deleteOperationState(st, state.id), outcome |-> "exit1"]
    ELSE LET moved == IF getCurrentBranch(r) # state.originalBranch
                      THEN checkout(r, state.originalBranch)
                      ELSE r
         IN  [repo |-> RecoverBranches(moved, state, keepBranches),
              store |-> deleteOperationState(st, state.id),
              outcome |-> "recovered"]

\* recover.ts 64-123 and 205-210: performRecovery and the catch of recover
performRecovery(r, st, state, keepBranches, checkoutOk) ==
    IF ReturnFails(r, state, checkoutOk)
    THEN [repo |-> r, store |-> st, outcome |-> "exit1"]
    ELSE LET moved == IF getCurrentBranch(r) # state.originalBranch
                      THEN checkout(r, state.originalBranch)
                      ELSE r
         IN  [repo |-> RecoverBranches(moved, state, keepBranches),
              store |-> deleteOperationState(st, state.id),
              outcome |-> "recovered"]

\* recover.ts 128-211: the command `recover`, run by the user after the
\* command has ended or was killed.  The record is the one named by --id, the
\* only one, the newest one, or the one picked at the prompt.
Recover ==
    /\ Idle
    /\ \E i \in 1..Len(getIncompleteOperations(store)),
          keepBranches \in BOOLEAN, checkoutOk \in BOOLEAN :
          LET state == getIncompleteOperations(store)[i]
              done == performRecovery(repo, store, state, keepBranches, checkoutOk)
          IN  /\ MayFail(checkoutOk \/ getCurrentBranch(repo) = state.originalBranch)
              /\ repo' = done.repo
              /\ store' = done.store
              /\ rc' = [outcome |-> done.outcome, record |-> state,
                        keepBranches |-> keepBranches,
                        before |-> repo.branches, beforeCur |-> repo.cur]
    /\ UNCHANGED <<nextId, started, br, mb, changeSet, io, api, derived>>

\* recover.ts 11-16: --id (0 when absent), --keep-branches, --list, --auto
RecoverOptions ==
    [id : {0, 1, 2, 3}, keepBranches : BOOLEAN, list : BOOLEAN, auto : BOOLEAN]

\* With --auto the oldest incomplete record is taken.
SelectOperation_oldest(st, options, pick) ==
    LET incompleteOps == getIncompleteOperations(st)
    IN  IF options.id # 0 THEN loadOperationState(st, options.id)
        ELSE IF Len(incompleteOps) = 1 THEN incompleteOps[1]
        ELSE IF options.auto THEN incompleteOps[Len(incompleteOps)]
        ELSE loadOperationState(st, incompleteOps[pick].id)

\* recover.ts 144-179: the record to recover, or NoRecord; pick is the entry
\* of the list that the user selects at the prompt
SelectOperation(st, options, pick) ==
    LET incompleteOps == getIncompleteOperations(st)
    IN  IF options.id # 0 THEN loadOperationState(st, options.id)
        ELSE IF Len(incompleteOps) = 1 THEN incompleteOps[1]
        ELSE IF options.auto THEN incompleteOps[1]
        ELSE loadOperationState(st, incompleteOps[pick].id)

\* recover.ts 164-176: the user is asked to select a record
Prompts(st, options) ==
    /\ ~options.list
    /\ options.id = 0
    /\ Len(getIncompleteOperations(st)) > 1
    /\ ~options.auto

\* recover.ts 190-203: the user is asked to confirm the recovery
Confirms(st, options, pick) ==
    /\ ~options.list
    /\ Len(getIncompleteOperations(st)) > 0
    /\ SelectOperation(st, options, pick) # NoRecord
    /\ ~options.auto

\* recover.ts 128-211: the command `recover`; the result names the record it
\* selected and the exit status of the process
recover(r, st, options, pick, shouldProceed, checkoutOk) ==
    LET state == SelectOperation(st, options, pick)
        same(outcome, exit, record) ==
            [repo |-> r, store |-> st, outcome |-> outcome, exit |-> exit,
             record |-> record]
    IN  IF options.list THEN same("listed", 0, NoRecord)
        ELSE IF Len(getIncompleteOperations(st)) = 0 THEN same("nothing", 0, NoRecord)
        ELSE IF state = NoRecord THEN same("notFound", 1, NoRecord)
        ELSE IF ~options.auto /\ ~shouldProceed THEN same("cancelled", 0, state)
        ELSE LET done == performRecovery(r, st, state, options.keepBranches, checkoutOk)
             IN  [repo |-> done.repo, store |-> done.store, outcome |-> done.outcome,
                  exit |-> IF done.outcome = "exit1" THEN 1 ELSE 0,
                  record |-> state]

\* The user runs `recover` with any options on a storage that holds several
\* records.
RecoverCmd ==
    /\ Idle
    /\ ~started
    /\ \E options \in RecoverOptions, pick \in 1..3,
          shouldProceed \in BOOLEAN, checkoutOk \in BOOLEAN :
          LET done == recover(repo, store, options, pick, shouldProceed, checkoutOk)
              asks == Prompts(store, options)
              returns == /\ done.outcome \in {"recovered", "exit1"}
                         /\ getCurrentBranch(repo) # done.record.originalBranch
          IN  /\ IF asks THEN pick <= Len(getIncompleteOperations(store)) ELSE pick = 1
              /\ shouldProceed \/ Confirms(store, options, pick)
              /\ MayFail(checkoutOk \/ ~returns)
              /\ checkoutOk \/ returns
              /\ repo' = done.repo
              /\ store' = done.store
              /\ rc' = [outcome |-> done.outcome, record |-> done.record,
                        keepBranches |-> options.keepBranches,
                        before |-> repo.branches, beforeCur |-> repo.cur,
                        options |-> options, exit |-> done.exit,
                        prompted |-> asks, pick |-> pick,
                        storeBefore |-> store, repoBefore |-> repo]
    /\ started' = TRUE
    /\ UNCHANGED <<nextId, br, mb, changeSet, io, api, derived>>

\* Storage as earlier commands left it: up to three records, each failed or
\* left complete by a process that died before deleting it, created in any
\* order, each with no branch or with one branch marked created.
StoredRecords ==
    {[i \in {1, 2, 3} |->
         IF i \notin ids THEN NoRecord
         ELSE [id |-> i,
               timestamp |-> created[i],
               operation |-> "multi-branch",
               originalBranch |-> MainBranch,
               currentState |-> IF i \in complete THEN "complete" ELSE "failed",
               branches |-> IF i \in withBranch
                            THEN <<NewBranchState(StoredBranch[i], [created |-> TRUE])>>
                            ELSE <<>>,
               options |-> [push |-> FALSE, keepBranchOnFailure |-> FALSE]]] :
        ids \in SUBSET {1, 2, 3},
        complete \in SUBSET {1, 2},
        withBranch \in {{}, {1, 2, 3}},
        created \in {<<1, 2, 3>>, <<3, 1, 2>>, <<2, 3, 1>>, <<3, 2, 1>>}}

\* A clean repository with the branches of earlier commands, on main or on
\* one of those branches.
InitRecover ==
    /\ repo \in {[cur |-> cur, branches |-> BranchNames,
                  trees |-> [b \in BranchNames |-> BaseTree],
                  index |-> BaseTree, wt |-> BaseTree,
                  log |-> EmptyLog, remote |-> {}, prs |-> {}] : cur \in {MainBranch, "x/A"}}
    /\ store \in StoredRecords
    /\ nextId = 4
    /\ started = FALSE
    /\ faults = 0
    /\ br = IdleBranch
    /\ mb = IdleMulti
    /\ rc = NoRecover
    /\ changeSet = {}
    /\ io = NoIo
    /\ api = NoCaller
    /\ derived = NoNames

SpecRecover == InitRecover /\ [][RecoverCmd]_vars

\* ------------------------------------- src/utils/state.ts, called directly
\* A caller creates a record, updates it, and completes it or dies; a later
\* process lists the storage.  api.stage and api.fields are what the caller
\* passed to the store last; api.touched is the branch of its last
\* updateBranchState; api.others is the storage it started on.

\* The record is marked complete and never deleted.
completeOperation_keeps(st, id, deleteState) ==
    updateOperationState(st, id, [currentState |-> "complete"])

\* state.ts 225-231
completeOperation(st, id, deleteState) ==
    LET marked == updateOperationState(st, id, [currentState |-> "complete"])
    IN  IF deleteState THEN deleteOperationState(marked, id) ELSE marked

\* The stages that branch() writes (branch.ts 154, 188, 212)
WrittenStages == {"creating-branch", "committing", "pushing"}

\* The BranchState updates that branch() writes (branch.ts 157-165, 180, 204,
\* 225, 274)
WrittenUpdates ==
    {[owner |-> "A", files |-> {"a"}, created |-> FALSE, committed |-> FALSE,
      pushed |-> FALSE, prCreated |-> FALSE],
     [created |-> TRUE], [committed |-> TRUE], [pushed |-> TRUE],
     [error |-> "PR creation failed"]}

\* state.ts 83-104: randomUUID gives an id that no stored record has
S_Create ==
    /\ api.phase = "idle"
    /\ \E id \in {i \in DOMAIN store : store[i] = NoRecord} :
          /\ store' = createOperationState(store, id, "branch", MainBranch,
                          [push |-> TRUE, keepBranchOnFailure |-> FALSE])
          /\ api' = [phase |-> "open", id |-> id, calls |-> 0,
                     stage |-> "initializing", order |-> <<>>, fields |-> <<>>,
                     touched |-> "", others |-> store, listed |-> <<>>]
    /\ UNCHANGED <<repo, nextId, started, faults, br, mb, rc, changeSet, io, derived>>

\* state.ts 174-186
S_Update ==
    /\ api.phase = "open"
    /\ api.calls < MaxCalls
    /\ \E stage \in WrittenStages :
          /\ store' = updateOperationState(store, api.id, [currentState |-> stage])
          /\ api' = [api EXCEPT !.calls = @ + 1, !.stage = stage]
    /\ UNCHANGED <<repo, nextId, started, faults, br, mb, rc, changeSet, io, derived>>

\* state.ts 191-220
S_Upsert ==
    /\ api.phase = "open"
    /\ api.calls < MaxCalls
    /\ \E name \in {"x/A", "x/B"}, updates \in WrittenUpdates :
          LET known == name \in DOMAIN api.fields
              written == updates @@ (IF known THEN api.fields[name] ELSE <<>>)
          IN  /\ store' = updateBranchState(store, api.id, name, updates)
              /\ api' = [api EXCEPT !.calls = @ + 1,
                                    !.order = IF known THEN @ ELSE Append(@, name),
                                    !.touched = name,
                                    !.fields = (name :> written) @@ @]
    /\ UNCHANGED <<repo, nextId, started, faults, br, mb, rc, changeSet, io, derived>>

\* state.ts 236-252, called for an operation that is not marked failed
S_Fail ==
    /\ api.phase = "open"
    /\ api.stage # "failed"
    /\ store' = failOperation(store, api.id, "Push failed")
    /\ LET n == Len(api.order)
           last == api.order[n]
       IN  api' = [api EXCEPT
                      !.stage = "failed",
                      !.fields = IF n = 0 THEN @
                                 ELSE (last :> ([error |-> "Push failed"] @@ @[last])) @@ @]
    /\ UNCHANGED <<repo, nextId, started, faults, br, mb, rc, changeSet, io, derived>>

\* state.ts 225-231
S_Complete ==
    /\ api.phase = "open"
    /\ \E deleteState \in BOOLEAN :
          /\ store' = completeOperation(store, api.id, deleteState)
          /\ api' = [api EXCEPT !.phase = IF deleteState THEN "deleted" ELSE "complete"]
    /\ UNCHANGED <<repo, nextId, started, faults, br, mb, rc, changeSet, io, derived>>

\* The process of the caller dies after a call of the store has returned.
S_Crash ==
    /\ api.phase = "open"
    /\ api' = [api EXCEPT !.phase = "crashed"]
    /\ UNCHANGED <<repo, store, nextId, started, faults, br, mb, rc, changeSet, io, derived>>

\* state.ts 147-169, called by a new process
S_List ==
    /\ api.phase = "crashed"
    /\ api' = [api EXCEPT !.phase = "listed", !.listed = listOperationStates(store)]
    /\ UNCHANGED <<repo, store, nextId, started, faults, br, mb, rc, changeSet, io, derived>>

InitStore ==
    /\ repo \in {r \in InitRepos : /\ getChangedFiles(r) = {}
                                   /\ ~hasStagedChanges(r)
                                   /\ r.branches = {MainBranch}}
    /\ store \in {st \in StoredRecords : \A i \in DOMAIN st : st[i].id \in {0, 2}}
    /\ nextId = 4
    /\ started = FALSE
    /\ faults = 0
    /\ br = IdleBranch
    /\ mb = IdleMulti
    /\ rc = NoRecover
    /\ changeSet = {}
    /\ io = NoIo
    /\ api = NoCaller
    /\ derived = NoNames

NextStore ==
    S_Create \/ S_Update \/ S_Upsert \/ S_Fail \/ S_Complete \/ S_Crash \/ S_List

SpecStore == InitStore /\ [][NextStore]_vars

\* ----------------- src/commands/multi-branch.ts: the names of one owner
\* An owner identifier, a base branch and a base message are sequences of
\* characters.

\* Longest owner identifier that is drawn from OwnerChars.
MaxOwnerLen == 3

Lower ==
    {"a", "b", "c", "d", "e", "f", "g", "h", "i", "j", "k", "l", "m",
     "n", "o", "p", "q", "r", "s", "t", "u", "v", "w", "x", "y", "z"}

Upper ==
    {"A", "B", "C", "D", "E", "F", "G", "H", "I", "J", "K", "L", "M",
     "N", "O", "P", "Q", "R", "S", "T", "U", "V", "W", "X", "Y", "Z"}

Digits == {"0", "1", "2", "3", "4", "5", "6", "7", "8", "9"}

\* multi-branch.ts 153: the characters of the class [a-zA-Z0-9-_@]
SafeChars == Lower \cup Upper \cup Digits \cup {"-", "_", "@"}

\* Only the first unsafe character is replaced (the pattern without /g).
ReplaceUnsafe_first(s) ==
    [i \in 1..Len(s) |->
        IF s[i] \notin SafeChars /\ \A j \in 1..(i - 1) : s[j] \in SafeChars
        THEN "-" ELSE s[i]]

\* multi-branch.ts 153: .replace(/[^a-zA-Z0-9-_@]/g, "-")
ReplaceUnsafe(s) == [i \in 1..Len(s) |-> IF s[i] \in SafeChars THEN s[i] ELSE "-"]

\* multi-branch.ts 154: .replace(/^@/, "")
StripLeadingAt(s) == IF Len(s) > 0 /\ s[1] = "@" THEN Tail(s) ELSE s

\* multi-branch.ts 152-154
sanitizedOwner(owner) == StripLeadingAt(ReplaceUnsafe(owner))

\* multi-branch.ts 157
branchName(base, owner) == base \o <<"/">> \o sanitizedOwner(owner)

\* multi-branch.ts 160
commitMessage(message, owner) == message \o <<" ", "-", " ">> \o owner

\* The characters that owner identifiers are drawn from: a letter of either
\* case, a digit, the three other safe characters, and three unsafe ones.
OwnerChars == {"a", "Z", "7", "-", "_", "@", "/", ".", " "}

\* "@org/team-name" and "user@example.com"
TeamOwner == <<"@", "o", "r", "g", "/", "t", "e", "a", "m", "-", "n", "a", "m", "e">>
MailOwner ==
    <<"u", "s", "e", "r", "@", "e", "x", "a", "m", "p", "l", "e", ".", "c", "o", "m">>

\* getOwner returns non-empty identifiers.
OwnerNames ==
    UNION {[1..n -> OwnerChars] : n \in 1..MaxOwnerLen} \cup {TeamOwner, MailOwner}

\* "x" and "feature"
BaseBranches == {<<"x">>, <<"f", "e", "a", "t", "u", "r", "e">>}

\* "m"
BaseMessages == {<<"m">>}

\* multi-branch.ts 149-180: one round of the loop up to the call of branch()
N_Derive ==
    /\ derived.phase = "owner"
    /\ derived' = [derived EXCEPT
                      !.phase = "called",
                      !.branch = branchName(derived.base, derived.owner),
                      !.message = commitMessage(derived.baseMessage, derived.owner)]
    /\ UNCHANGED <<repo, store, nextId, started, faults, br, mb, rc, changeSet, io, api>>

\* The loop of multiBranch has reached some owner, with some --branch and
\* --message.
InitNames ==
    /\ repo \in {r \in InitRepos : /\ getChangedFiles(r) = {}
                                   /\ ~hasStagedChanges(r)
                                   /\ r.branches = {MainBranch}}
    /\ store = [i \in OpIds |-> NoRecord]
    /\ nextId = 1
    /\ started = FALSE
    /\ faults = 0
    /\ br = IdleBranch
    /\ mb = IdleMulti
    /\ rc = NoRecover
    /\ changeSet = {}
    /\ io = NoIo
    /\ api = NoCaller
    /\ derived \in [phase : {"owner"}, owner : OwnerNames, base : BaseBranches,
                    baseMessage : BaseMessages, branch : {<<>>}, message : {<<>>}]

SpecNames == InitNames /\ [][N_Derive]_vars

\* ------------------------------------------------------- the environment
\* The process of the running command is killed (SIGKILL, power loss): it
\* stops where it is, and nothing is cleaned up.
Kill ==
    /\ ~Idle
    /\ br' = IF BranchEnded THEN br ELSE [br EXCEPT !.pc = "killed"]
    /\ mb' = IF MultiEnded THEN mb ELSE [mb EXCEPT !.pc = "killed"]
    /\ UNCHANGED <<repo, store, nextId, started, faults, rc, changeSet, io, api, derived>>

\* Branches and stored records are cleaned up before the process exits.
handleShutdown_cleanup(isShuttingDown, r, st) ==
    [repo |-> r,
     store |-> [i \in DOMAIN st |-> NoRecord],
     exit |-> IF isShuttingDown THEN 1 ELSE 130,
     reported |-> getIncompleteOperations(st)]

\* signals.ts 25-49: the handler of SIGINT and SIGTERM
handleShutdown(isShuttingDown, r, st) ==
    [repo |-> r,
     store |-> st,
     exit |-> IF isShuttingDown THEN 1 ELSE 130,
     reported |-> IF isShuttingDown THEN <<>> ELSE getIncompleteOperations(st)]

\* signals.ts 51-52: the process of the running command receives SIGINT or
\* SIGTERM; the handler runs to its process.exit between two awaited steps.
Interrupt ==
    /\ ~Idle
    /\ LET h == handleShutdown(io.signalled, repo, store)
       IN  /\ repo' = h.repo
           /\ store' = h.store
           /\ io' = [signalled |-> TRUE, exit |-> h.exit, reported |-> h.reported]
    /\ br' = IF BranchEnded THEN br ELSE [br EXCEPT !.pc = "interrupted"]
    /\ mb' = IF MultiEnded THEN mb ELSE [mb EXCEPT !.pc = "interrupted"]
    /\ UNCHANGED <<nextId, started, faults, rc, changeSet, api, derived>>

\* cli.ts 27-54: the user runs `branch` with any options; --owner, --branch
\* or --message may be missing.
BranchCmd ==
    /\ Idle
    /\ ~started
    /\ \E owner \in OwnerIds, append \in BOOLEAN, push \in BOOLEAN,
          keep \in BOOLEAN, isDefault \in BOOLEAN, missing \in BOOLEAN,
          pr \in BOOLEAN, draftPr \in BOOLEAN :
          br' = [NewBranchCall(FALSE, owner, BranchOf[owner], append, push, keep,
                               isDefault, 0)
                    EXCEPT !.missing = missing, !.pr = pr, !.draftPr = draftPr]
    /\ started' = TRUE
    /\ mb' = IdleMulti
    /\ UNCHANGED <<repo, store, nextId, faults, rc, changeSet, io, api, derived>>

\* The values of --ignore and --include: absent, "A", "*" and "A, D"
Patterns == {<<>>, <<"A">>, <<"*">>, <<"A", ",", " ", "D">>}

\* cli.ts 56-100: the user runs `multi-branch` with any options; --branch or
\* --message may be missing, and --default-owner may name an owner whose
\* branch is that of another owner.
MultiBranchCmd ==
    /\ Idle
    /\ ~started
    /\ \E append \in BOOLEAN, push \in BOOLEAN, keep \in BOOLEAN,
          defaultOwner \in {"", "A", "D", "@A"}, missing \in BOOLEAN,
          ignore \in Patterns, include \in Patterns,
          pr \in BOOLEAN, draftPr \in BOOLEAN :
          mb' = [IdleMulti EXCEPT !.pc = "validate", !.append = append,
                                  !.push = push, !.keepBranchOnFailure = keep,
                                  !.defaultOwner = defaultOwner,
                                  !.missing = missing, !.ignore = ignore,
                                  !.include = include, !.pr = pr, !.draftPr = draftPr,
                                  !.entryBranches = repo.branches,
                                  !.entryLog = repo.log]
    /\ started' = TRUE
    /\ br' = IdleBranch
    /\ UNCHANGED <<repo, store, nextId, faults, rc, changeSet, io, api, derived>>

\* The repositories on which the commands are run with any options: on main,
\* with one of four sets of edited files, possibly one more file staged, and
\* possibly an older branch x/A equal to main.
InitOptionsRepos ==
    {r \in InitRepos :
        /\ r.trees["x/A"] = BaseTree
        /\ {f \in Files : r.wt[f] = EditContent /\ r.index[f] = BaseContent}
              \in {{}, {"a"}, {"a", "b"}, {"a", "c", "d"}}}

InitOptions ==
    /\ repo \in InitOptionsRepos
    /\ store = [i \in OpIds |-> NoRecord]
    /\ nextId = 1
    /\ started = FALSE
    /\ faults = 0
    /\ br = IdleBranch
    /\ mb = IdleMulti
    /\ rc = NoRecover
    /\ changeSet = {f \in Files : repo.wt[f] = EditContent}
    /\ io = NoIo
    /\ api = NoCaller
    /\ derived = NoNames

NextOptions ==
    \/ BranchCmd \/ B_Validate \/ B_CreateState \/ B_GetFiles
    \/ B_StCreating \/ B_StBranch \/ B_Create \/ B_StCreated \/ B_StCommitting
    \/ B_Add \/ B_Commit \/ B_StCommitted \/ B_StPushing \/ B_Push \/ B_StPushed
    \/ B_StCreatingPr \/ B_CreatePr \/ B_StPrCreated \/ B_StPrError
    \/ B_Back \/ B_Complete \/ B_CompleteDelete
    \/ C_Fail \/ C_Checkout \/ C_Restore \/ C_Unstage \/ C_Delete \/ F_Finally
    \/ MultiBranchCmd \/ M_Validate \/ M_CreateState \/ M_Owners \/ M_Call
    \/ M_Return \/ M_Complete \/ M_CompleteDelete \/ M_Catch
    \/ Interrupt

SpecOptions == InitOptions /\ [][NextOptions]_vars

Next ==
    \/ BranchStart \/ B_Validate \/ B_CreateState \/ B_GetFiles
    \/ B_StCreating \/ B_StBranch \/ B_Create \/ B_StCreated \/ B_StCommitting
    \/ B_Add \/ B_Commit \/ B_StCommitted \/ B_StPushing \/ B_Push \/ B_StPushed
    \/ B_Back \/ B_Complete \/ B_CompleteDelete
    \/ C_Fail \/ C_Checkout \/ C_Restore \/ C_Unstage \/ C_Delete \/ F_Finally
    \/ MultiStart \/ M_Validate \/ M_CreateState \/ M_Owners \/ M_Call \/ M_Return
    \/ M_Complete \/ M_CompleteDelete \/ M_Catch
    \/ Recover \/ Kill

Spec == Init /\ [][Next]_vars

\* recover.ts 128-211: the user runs `recover` in another terminal of the same
\* working directory while the command is still running, between two of its
\* awaited steps.
RecoverConcurrently ==
    /\ ~Idle
    /\ \E i \in 1..Len(getIncompleteOperations(store)),
          keepBranches \in BOOLEAN, checkoutOk \in BOOLEAN :
          LET state == getIncompleteOperations(store)[i]
              done == performRecovery(repo, store, state, keepBranches, checkoutOk)
          IN  /\ MayFail(checkoutOk \/ getCurrentBranch(repo) = state.originalBranch)
              /\ repo' = done.repo
              /\ store' = done.store
              /\ rc' = [outcome |-> done.outcome, record |-> state,
                        keepBranches |-> keepBranches,
                        before |-> repo.branches, beforeCur |-> repo.cur]
    /\ UNCHANGED <<nextId, started, br, mb, changeSet, io, api, derived>>

NextConcurrent ==
    \/ BranchStart \/ B_Validate \/ B_CreateState \/ B_GetFiles
    \/ B_StCreating \/ B_StBranch \/ B_Create \/ B_StCreated \/ B_StCommitting
    \/ B_Add \/ B_Commit \/ B_StCommitted \/ B_StPushing \/ B_Push \/ B_StPushed
    \/ B_Back \/ B_Complete \/ B_CompleteDelete
    \/ C_Fail \/ C_Checkout \/ C_Restore \/ C_Unstage \/ C_Delete \/ F_Finally
    \/ MultiStart \/ M_Validate \/ M_CreateState \/ M_Owners \/ M_Call \/ M_Return
    \/ M_Complete \/ M_CompleteDelete \/ M_Catch
    \/ Recover \/ RecoverConcurrently

\* The command runs to its end while recover may run beside it and after it.
SpecConcurrent == InitOptions /\ [][NextConcurrent]_vars

\* The steps of a multi-branch run.
NextLive ==
    \/ MultiStart \/ M_Validate \/ M_CreateState \/ M_Owners \/ M_Call \/ M_Return
    \/ M_Complete \/ M_CompleteDelete \/ M_Catch
    \/ B_Validate \/ B_GetFiles
    \/ B_StCreating \/ B_StBranch \/ B_Create \/ B_StCreated \/ B_StCommitting
    \/ B_Add \/ B_Commit \/ B_StCommitted \/ B_StPushing \/ B_Push \/ B_StPushed
    \/ B_Back \/ C_Checkout \/ C_Restore \/ C_Unstage \/ C_Delete \/ F_Finally

\* A multi-branch run that nothing stops from outside: every external call
\* returns, with success or failure, and the process takes its next step.
SpecLive == InitOptions /\ [][NextLive]_vars /\ WF_vars(NextLive)

TypeOK ==
    /\ repo.cur \in repo.branches
    /\ repo.branches \subseteq BranchNames
    /\ nextId \in {1, 2}
    /\ started \in BOOLEAN
    /\ faults \in 0..MaxFaults

\* ---------------------------------------------------------- properties
\* The call of branch() has ended: it returned, or the process exited with
\* status 1; recover has not touched the repository since.
BranchCallEnded == br.pc \in {"returned", "exited"} /\ rc = NoRecover

\* The content of a file is still available: as an uncommitted change, or in
\* a branch that exists.
Available(f, content) ==
    \/ repo.wt[f] = content
    \/ repo.index[f] = content
    \/ \E b \in repo.branches : repo.trees[b][f] = content

\* C1: whenever a call of branch() that has read its original branch ends
\* (returns success, returns a failure as a sub-operation, or exits with
\* status 1), the current branch is the branch the call began on.
C1_EndsOnOriginalBranch ==
    (BranchCallEnded /\ br.originalBranch # "")
        => getCurrentBranch(repo) = br.entryBranch

\* The case of C2: the commit on a freshly created branch succeeded, the push
\* then failed, keepBranchOnFailure is off, every git call of the cleanup
\* went through, and the cleanup is over.
PushFailedAfterCommit ==
    /\ BranchCallEnded
    /\ br.newBranchCreated
    /\ br.commitSucceeded
    /\ br.err = "Push failed"
    /\ ~br.keepBranchOnFailure
    /\ br.restoreFailed = {}

BranchSucceeded == br.pc \in {"finally", "returned"} /\ br.result.success

\* C3: a successful call of branch() for an owner puts exactly one new commit
\* on the branch, and the changed-file list of that commit is the owner's file
\* set as it was when the call began: no file of another owner, no file
\* missing.
C3_CommitIsOwnersFiles ==
    BranchSucceeded =>
        /\ br.entryFiles # {}
        /\ repo.log[br.branch] =
              Append(IF br.branch \in br.entryBranches THEN br.entryLog ELSE <<>>,
                     br.entryFiles)

C3_Witness ==
    /\ BranchSucceeded
    /\ br.entryFiles # {}
    /\ changeSet \ br.entryFiles # {}

\* A failure of a sub-operation that is its own: one of its git steps failed,
\* or its branch exists already.
OwnFailure(f) ==
    f.err \in {"Failed to create branch", "Failed to checkout branch",
               "Commit failed", "Push failed", "already exists"}

IsFailure(result) == ~result.success /\ result.error # "No files found for this owner"

SiblingFailedBefore ==
    \E i \in 1..Len(mb.subResults) : IsFailure(mb.subResults[i])

\* C4: in a multi-branch run, the failure of one owner's sub-operation does
\* not reach the owners processed after it: an owner with a non-empty file set
\* gets its branch and its commit unless one of its own steps fails.
C4_SiblingFailureIsContained ==
    (/\ mb.pc = "wait"
     /\ br.pc = "returned"
     /\ SiblingFailedBefore
     /\ br.entryFiles # {})
        => (br.result.success \/ OwnFailure(br))

\* The per-owner loop of the multi-branch run is over.
LoopOver == mb.pc \in {"complete", "completeDelete", "done"} /\ Len(mb.codeowners) > 0

\* C5: at the end of a multi-branch run every processed owner is in exactly
\* one of the success list and the failure list: in the failure list if and
\* only if its sub-operation ended with a failure other than 'no files'.
C5_SummaryFollowsResults ==
    LoopOver =>
        \A i \in 1..Len(mb.codeowners) :
            /\ (mb.codeowners[i] \in Range(mb.failure)) <=> IsFailure(mb.subResults[i])
            /\ (mb.codeowners[i] \in Range(mb.success)) <=> ~IsFailure(mb.subResults[i])

\* C6: when, after a successful commit on a freshly created branch, a later
\* step fails and a committed file cannot be restored from the branch, the
\* branch is not deleted.
C6_BranchKeptWhenRestoreFails ==
    (/\ BranchCallEnded
     /\ br.newBranchCreated
     /\ br.commitSucceeded
     /\ br.restoreFailed # {})
        => branchExists(repo, br.branch)

\* The command was killed and recover has then run to its end.
RecoveredAfterKill ==
    /\ "killed" \in {br.pc, mb.pc}
    /\ rc.outcome = "recovered"

\* C7: no data loss across crash and recovery: after the command was killed at
\* any point and recover ran without --keep-branches, the content of every
\* file of the original change-set is still available, as an uncommitted
\* change or in a branch that exists.
C7_NoDataLossAfterRecover ==
    (RecoveredAfterKill /\ ~rc.keepBranches)
        => \A f \in changeSet : Available(f, EditContent)

CreatedBranches(state) ==
    {state.branches[i].name : i \in {j \in 1..Len(state.branches) : state.branches[j].created}}

\* C8: when recover without --keep-branches completes, the current branch is
\* the record's original branch, no branch marked created in the record
\* exists, and the record is gone from storage; a created branch that was
\* already absent does not make the recovery fail.
C8_RecoverCleansUp ==
    (rc.outcome = "recovered" /\ ~rc.keepBranches) =>
        /\ getCurrentBranch(repo) = rc.record.originalBranch
        /\ CreatedBranches(rc.record) \cap repo.branches = {}
        /\ loadOperationState(store, rc.record.id) = NoRecord

C8_Witness ==
    /\ rc.outcome = "recovered"
    /\ ~rc.keepBranches
    /\ rc.beforeCur # rc.record.originalBranch
    /\ CreatedBranches(rc.record) \cap rc.before # {}
    /\ CreatedBranches(rc.record) \ rc.before # {}

\* C9: recover deletes no branch but those marked created in the record; with
\* --keep-branches it deletes no branch at all, and still returns to the
\* original branch and removes the record.
C9_RecoverDeletesOnlyCreated ==
    rc.outcome = "recovered" =>
        /\ (rc.before \ repo.branches) \subseteq CreatedBranches(rc.record)
        /\ rc.keepBranches =>
              /\ repo.branches = rc.before
              /\ getCurrentBranch(repo) = rc.record.originalBranch
              /\ loadOperationState(store, rc.record.id) = NoRecord

C9_Witness ==
    /\ rc.outcome = "recovered"
    /\ rc.keepBranches
    /\ rc.beforeCur # rc.record.originalBranch
    /\ CreatedBranches(rc.record) \cap repo.branches # {}

\* C10: when the checkout of the original branch fails during recover, the
\* attempt ends with exit status 1, no branch is deleted and the record stays
\* in storage, so that the recovery can be tried again.
C10_FailedRecoverChangesNothing ==
    rc.outcome = "exit1" =>
        /\ repo.branches = rc.before
        /\ getCurrentBranch(repo) = rc.beforeCur
        /\ loadOperationState(store, rc.record.id) = rc.record
        /\ rc.record \in Range(getIncompleteOperations(store))

C10_Witness ==
    /\ rc.outcome = "exit1"
    /\ CreatedBranches(rc.record) \cap repo.branches # {}

\* ------------------------------------------------ properties of recover
\* The incomplete records that the run of recover found in storage.
IncompleteBefore == getIncompleteOperations(rc.storeBefore)

\* The run of recover changed no branch, no current-branch pointer and no
\* stored record.
RecoverChangedNothing == repo = rc.repoBefore /\ store = rc.storeBefore

\* The run of recover selected this record (and then recovered it, failed to,
\* or was told not to).
Selected(record) ==
    /\ rc.outcome \in {"cancelled", "recovered", "exit1"}
    /\ rc.record = record

\* --list and a declined confirmation change nothing.
ListAndDeclineRule ==
    (rc.options.list \/ rc.outcome = "cancelled") => RecoverChangedNothing

\* The selection policy: --id, the only record, the newest record, the prompt.
SelectionRule ==
    IF rc.options.id # 0
    THEN IF loadOperationState(rc.storeBefore, rc.options.id) = NoRecord
         THEN rc.exit = 1
         ELSE Selected(loadOperationState(rc.storeBefore, rc.options.id))
    ELSE IF Len(IncompleteBefore) = 1 THEN Selected(IncompleteBefore[1])
    ELSE IF Len(IncompleteBefore) > 1 /\ rc.options.auto
    THEN \E s \in Range(IncompleteBefore) :
            /\ Selected(s)
            /\ \A t \in Range(IncompleteBefore) : s.timestamp >= t.timestamp
    ELSE Len(IncompleteBefore) > 1 => (rc.prompted /\ Selected(IncompleteBefore[rc.pick]))

\* C11 as stated: recover takes the stored record named by --id (exit status 1
\* if there is none), else the only incomplete record, else with --auto the
\* most recently created one, else the one picked at the prompt; --list and a
\* declined confirmation change nothing.
C11_RecoverSelection ==
    rc.outcome # "none" =>
        /\ ListAndDeclineRule
        /\ ~rc.options.list => SelectionRule

\* C11, amended: the selection policy holds when storage has at least one
\* incomplete record; when it has none, recover without --list ends with exit
\* status 0 and changes nothing, whatever --id names.
C11_SelectionAmongIncomplete ==
    rc.outcome # "none" =>
        /\ ListAndDeclineRule
        /\ (~rc.options.list /\ Len(IncompleteBefore) > 0) => SelectionRule
        /\ (~rc.options.list /\ Len(IncompleteBefore) = 0) =>
              /\ rc.outcome = "nothing"
              /\ rc.exit = 0
              /\ RecoverChangedNothing

C11_Witness ==
    /\ rc.outcome = "recovered"
    /\ rc.options.auto
    /\ rc.options.id = 0
    /\ Len(IncompleteBefore) = 3
    /\ rc.record.id = 1
    /\ loadOperationState(rc.storeBefore, 3) \in Range(IncompleteBefore)

\* --------------------------------------------- properties of validation
ValidationErrors ==
    {"Missing required options", "Cannot use both --ignore and --include",
     "Pull request creation requires --push", "Cannot use both --pr and --draft-pr",
     "Staged changes detected"}

\* The input of a call of branch() that must be rejected.
InvalidBranchInput(f, r) ==
    \/ f.missing
    \/ (f.pr \/ f.draftPr) /\ ~f.push
    \/ f.pr /\ f.draftPr
    \/ hasStagedChanges(r)

\* The input of a run of multi-branch that must be rejected.
InvalidMultiInput(m, r) ==
    \/ InvalidBranchInput(m, r)
    \/ m.ignore # <<>> /\ m.include # <<>>

NoMutation == repo' = repo /\ store' = store /\ nextId' = nextId

\* The step in which a frame leaves its validation.
Validates(f, g) == f.pc = "validate" /\ g.pc \notin {"validate", "interrupted"}

RejectsBeforeMutation ==
    \* nothing is changed on the way to the validation
    /\ (br.pc # "validate" /\ br'.pc = "validate") => NoMutation
    /\ (mb.pc # "validate" /\ mb'.pc = "validate") => NoMutation
    \* invalid input is rejected by the validation, which changes nothing
    /\ (Validates(br, br') /\ InvalidBranchInput(br, repo)) =>
          /\ br'.err \in ValidationErrors
          /\ ~br'.result.success
          /\ br'.pc = IF br.sub THEN "finally" ELSE "exited"
          /\ NoMutation
    /\ (Validates(mb, mb') /\ InvalidMultiInput(mb, repo)) =>
          /\ mb'.err \in ValidationErrors
          /\ mb'.pc = "exited"
          /\ NoMutation
    \* and the rejected call changes nothing until it has ended
    /\ (br.err \in ValidationErrors /\ br'.err \in ValidationErrors /\ br' # br) =>
          NoMutation
    /\ mb.err \in ValidationErrors => NoMutation

\* C12: every validation failure of branch or multi-branch (a missing required
\* option, both --include and --ignore, --pr or --draft-pr without --push,
\* both --pr and --draft-pr, staged changes) is rejected, with exit status 1
\* or with a structured failure for a sub-operation, and no step of the
\* rejected call, before or after the rejection, changes the repository or
\* the stored records.
C12_RejectedBeforeAnyMutation == [][RejectsBeforeMutation]_vars

C12_Witness ==
    /\ br.sub
    /\ br.err = "Staged changes detected"
    /\ br.pc = "returned"
    /\ br.pr

\* ------------------------------------- properties of the branch's existence
\* A call of branch() with --append for a branch that does not exist has
\* ended; its validation passed and the owner has changed files.
AppendToMissingBranch ==
    /\ BranchCallEnded
    /\ br.append
    /\ br.branch \notin br.entryBranches
    /\ br.entryFiles # {}
    /\ br.err \notin ValidationErrors

\* C13: with --append and a branch that does not exist, the branch operation
\* fails with a 'does not exist' condition, and creates no branch and no
\* commit.
C13_AppendNeedsExistingBranch ==
    AppendToMissingBranch =>
        /\ ~br.result.success
        /\ br.err = "does not exist"
        /\ ~br.newBranchCreated
        /\ ~br.commitSucceeded
        /\ ~branchExists(repo, br.branch)

\* A call of branch() without --append, for a branch that existed before the
\* call, is running or has ended.
ExistingWithoutAppend ==
    /\ br.pc # "idle"
    /\ rc = NoRecover
    /\ ~br.append
    /\ br.branch \in br.entryBranches

\* C14: when the branch exists and --append is not set, the existing branch is
\* never checked out, receives no commit and is not deleted, at any point of
\* the call; the call, unless it is rejected earlier or has no file to commit,
\* fails with an 'already exists' condition.
C14_ExistingBranchUntouched ==
    ExistingWithoutAppend =>
        /\ getCurrentBranch(repo) = br.entryBranch
        /\ getCurrentBranch(repo) # br.branch
        /\ repo.log[br.branch] = br.entryLog
        /\ branchExists(repo, br.branch)
        /\ ~br.result.success
        /\ (BranchCallEnded /\ br.entryFiles # {} /\ br.err \notin ValidationErrors)
              => br.err = "already exists"

C14_Witness ==
    /\ ExistingWithoutAppend
    /\ br.pc = "exited"
    /\ br.err = "already exists"
    /\ br.entryFiles # {}

\* ------------------------------------------ properties of the state store
\* C15: state round-trip: create, then any number of update and upsertBranch
\* calls on the returned id, then complete(id, deleteOnSuccess = true) leaves
\* storage with no record for that id (no record at all if storage was empty
\* before) and leaves every other stored record as it was.
C15_RoundTripLeavesNoRecord ==
    api.phase = "deleted" =>
        /\ loadOperationState(store, api.id) = NoRecord
        /\ \A s \in Range(listOperationStates(store)) : s.id # api.id
        /\ \A j \in DOMAIN store \ {api.id} : store[j] = api.others[j]
        /\ listOperationStates(api.others) = <<>> => listOperationStates(store) = <<>>

C15_Witness ==
    /\ api.phase = "deleted"
    /\ api.calls >= 2
    /\ api.stage # "initializing"
    /\ Len(api.order) >= 1
    /\ listOperationStates(store) # <<>>

\* The BranchState b holds what the caller wrote last: every field that was
\* passed in some update has the value passed last, and every other field has
\* its default.
HoldsLastWritten(b, written) ==
    \A key \in DOMAIN b \ {"name"} :
        b[key] = IF key \in DOMAIN written THEN written[key]
                 ELSE NewBranchState(b.name, <<>>)[key]

SomeSubFailed == \E i \in 1..Len(mb.subResults) : IsFailure(mb.subResults[i])

\* The step removes the record id from storage.
Removes(id) == store[id] # NoRecord /\ store'[id] = NoRecord

\* The step is the last one of a successful standalone branch operation.
StandaloneSuccessStep(id) ==
    /\ br.pc = "completeDelete"
    /\ ~br.sub
    /\ br.opId = id
    /\ br.err = ""
    /\ br'.result.success

\* The step is the last one of a multi-branch run whose loop has ended.
MultiLoopEndStep(id) ==
    /\ mb.pc = "completeDelete"
    /\ mb.opId = id
    /\ mb'.pc = "done"

\* The step is a run of recover that recovers the record.
RecoverStep(id) ==
    /\ rc' # rc
    /\ rc'.outcome = "recovered"
    /\ rc'.record.id = id

\* The record of a standalone operation that failed, of a multi-branch run
\* that threw outside its loop, and of an operation that was killed before
\* its end, is in storage as long as recover has not recovered it.
FailedRecordStored ==
    rc.outcome # "recovered" =>
        /\ (br.pc = "exited" /\ br.opId # 0) => store[br.opId] # NoRecord
        /\ (mb.pc = "exited" /\ mb.opId # 0) => store[mb.opId] # NoRecord
        /\ (br.pc = "killed" /\ br.opId # 0 /\ ~br.sub /\ ~br.result.success)
              => store[br.opId] # NoRecord
        /\ (mb.pc = "killed" /\ mb.opId # 0) => store[mb.opId] # NoRecord

\* C17 as stated: a record is removed only on full success (every branch
\* sub-operation succeeded) or by recover; after an operation in which
\* something failed, the record is in storage until recover is run.
C17_RecordKeptUnlessFullSuccess ==
    /\ FailedRecordStored
    /\ (mb.pc = "done" /\ mb.opId # 0 /\ SomeSubFailed /\ rc.outcome # "recovered")
          => store[mb.opId] # NoRecord

\* C17, amended: a record is removed from storage only by the last step of a
\* successful standalone branch operation, by the last step of a multi-branch
\* run whose owner loop ended without an exception (whether or not
\* sub-operations failed), or by recover; the record of a failed standalone
\* operation, of a multi-branch run that threw, and of a killed operation
\* stays until recover is run.
C17_RecordRemovedOnlyAtEndOrByRecover ==
    [][/\ \A id \in DOMAIN store :
             Removes(id) => \/ StandaloneSuccessStep(id)
                            \/ MultiLoopEndStep(id)
                            \/ RecoverStep(id)
       /\ FailedRecordStored']_vars

C17_Witness ==
    /\ mb.pc = "done"
    /\ mb.opId # 0
    /\ SomeSubFailed
    /\ rc = NoRecover
    /\ store[mb.opId] = NoRecord

\* ------------------------------------------ properties of the pull request
\* The BranchState of a branch in a stored record.
BranchStateOf(state, name) ==
    state.branches[CHOOSE i \in 1..Len(state.branches) : state.branches[i].name = name]

CleanupPcs == {"c_fail", "c_checkout", "c_restore", "c_unstage", "c_delete"}

\* C18: when the creation of the pull request fails after a successful push,
\* the branch operation does not fail: it goes on without any rollback step
\* and returns success with pushed = true; the branch, its commit and its
\* push remain, the committed files are not put back, and the BranchState, as
\* long as the record is stored, has committed and pushed true, an error
\* annotation, and prCreated false.
C18_PrFailureIsNotFatal ==
    br.prFailed =>
        /\ br.pushed /\ br.commitSucceeded /\ ~br.prCreated
        /\ br.err = ""
        /\ br.pc \notin CleanupPcs \cup {"exited"}
        /\ br.pc \in {"finally", "returned"} => br.result.success
        /\ branchExists(repo, br.branch)
        /\ br.branch \in repo.remote
        /\ repo.prs = br.entryRepo.prs
        /\ Len(repo.log[br.branch]) > 0
        /\ repo.log[br.branch][Len(repo.log[br.branch])] = br.filesToCommit
        /\ br.filesToCommit \cap getChangedFiles(repo) = {}
        /\ (br.pc \notin {"stPrError", "interrupted"} /\ store[br.opId] # NoRecord) =>
              LET b == BranchStateOf(store[br.opId], br.branch)
              IN  /\ b.committed /\ b.pushed
                  /\ b.error # ""
                  /\ ~b.prCreated

C18_Witness ==
    /\ br.prFailed
    /\ br.pc = "returned"
    /\ br.result.success
    /\ store[br.opId] # NoRecord
    /\ BranchStateOf(store[br.opId], br.branch).error = "PR creation failed"

\* ------------------------------------------ properties of the interrupt
\* The step in which the process receives its first interrupt signal.
FirstSignal == ~io.signalled /\ io'.signalled

\* C19: on an interrupt signal at any stage of an operation the process
\* reports the incomplete records and exits with status 130, and the handler
\* cleans nothing up: no branch is deleted, no checkout is made, no stored
\* record is changed or deleted, in that step or after it.
C19_InterruptOnlyReports ==
    [][/\ FirstSignal =>
             /\ io'.exit = 130
             /\ io'.reported = getIncompleteOperations(store)
             /\ BranchEnded' /\ MultiEnded'
             /\ "interrupted" \in {br'.pc, mb'.pc}
             /\ repo' = repo
             /\ store' = store
       /\ io.signalled => (repo' = repo /\ store' = store)]_vars

C19_Witness ==
    /\ io.signalled
    /\ Len(io.reported) > 0
    /\ br.pc = "interrupted"
    /\ br.newBranchCreated
    /\ getCurrentBranch(repo) = br.branch
    /\ branchExists(repo, br.branch)

\* ------------------------------------- properties of keepBranchOnFailure
\* A call of branch() has failed after it created a new branch, and every
\* file its cleanup had to restore was restored.
FailedAfterCreate ==
    /\ BranchCallEnded
    /\ br.newBranchCreated
    /\ ~br.result.success
    /\ br.restoreFailed = {}

\* C20: when a branch operation fails after it created a new branch, the
\* branch exists at the end of the operation if and only if
\* keepBranchOnFailure is set; without it also a fresh branch on which no
\* commit succeeded is deleted.
C20_BranchDeletedUnlessKept ==
    FailedAfterCreate =>
        (branchExists(repo, br.branch) <=> br.keepBranchOnFailure)

C20_Witness ==
    /\ FailedAfterCreate
    /\ ~br.keepBranchOnFailure
    /\ ~br.commitSucceeded
    /\ ~branchExists(repo, br.branch)

\* ------------------------------------------------ properties of --append
\* A run of multi-branch with --append is over, no git call failed on its own,
\* and the branch of every owner it processed existed when it began (an
\* earlier run had created them).
AppendRunOverExisting ==
    /\ mb.pc = "done"
    /\ mb.append
    /\ faults = 0
    /\ rc = NoRecover
    /\ Len(mb.codeowners) > 0
    /\ \A i \in 1..Len(mb.codeowners) : BranchOf[mb.codeowners[i]] \in mb.entryBranches

\* C21: a run of multi-branch with --append over owners whose branches exist
\* adds exactly one commit to every owner's branch and leaves the set of
\* branches as it was.
C21_AppendAddsOneCommitPerBranch ==
    AppendRunOverExisting =>
        /\ repo.branches = mb.entryBranches
        /\ \A i \in 1..Len(mb.codeowners) :
              LET b == BranchOf[mb.codeowners[i]]
              IN  Len(repo.log[b]) = Len(mb.entryLog[b]) + 1

\* The case in which the run does what C21 says: the owner's branch gained
\* its commit.
C21_AppendedOnce ==
    /\ AppendRunOverExisting
    /\ \A i \in 1..Len(mb.codeowners) :
          Len(repo.log[BranchOf[mb.codeowners[i]]]) = 1
\* ------------------------------------------------ properties of the names
\* The part of a derived branch name behind the base branch and the slash.
OwnerPart == SubSeq(derived.branch, Len(derived.base) + 2, Len(derived.branch))

\* 1 when the owner identifier begins with "@", else 0.
LeadingAt == IF derived.owner[1] = "@" THEN 1 ELSE 0

\* C22: the branch name passed to branch() is the base branch, a slash, and
\* the owner with every character outside [A-Za-z0-9-_@] replaced by "-" and
\* one leading "@" removed; the commit message is the base message, " - " and
\* the owner as it is.  "@org/team-name" gives "feature/org-team-name" and
\* "user@example.com" gives "feature/user@example-com".
C22_DerivedNames ==
    derived.phase = "called" =>
        /\ SubSeq(derived.branch, 1, Len(derived.base)) = derived.base
        /\ derived.branch[Len(derived.base) + 1] = "/"
        /\ Len(OwnerPart) = Len(derived.owner) - LeadingAt
        /\ \A i \in 1..Len(OwnerPart) :
              OwnerPart[i] = IF derived.owner[i + LeadingAt] \in SafeChars
                             THEN derived.owner[i + LeadingAt]
                             ELSE "-"
        /\ Len(derived.message) = Len(derived.baseMessage) + 3 + Len(derived.owner)
        /\ SubSeq(derived.message, 1, Len(derived.baseMessage)) = derived.baseMessage
        /\ SubSeq(derived.message, Len(derived.baseMessage) + 1,
                  Len(derived.baseMessage) + 3) = <<" ", "-", " ">>
        /\ SubSeq(derived.message, Len(derived.baseMessage) + 4, Len(derived.message))
              = derived.owner
        /\ derived.owner = TeamOwner =>
              OwnerPart = <<"o", "r", "g", "-", "t", "e", "a", "m", "-", "n", "a", "m", "e">>
        /\ derived.owner = MailOwner =>
              OwnerPart = <<"u", "s", "e", "r", "@", "e", "x", "a", "m", "p", "l", "e",
                            "-", "c", "o", "m">>

\* An owner with a leading "@" and two unsafe characters has been named.
C22_Witness ==
    /\ derived.phase = "called"
    /\ derived.owner = <<"@", "/", ".">>
    /\ derived.branch = <<"x", "/", "-", "-">>
    /\ derived.message = <<"m", " ", "-", " ", "@", "/", ".">>
\* ----------------------------------------------- properties of the filter
\* The patterns that a value of --ignore or --include lists, separated by
\* commas.
ListedPatterns(option) ==
    IF option = <<"A", ",", " ", "D">> THEN {<<"A">>, <<"D">>} ELSE {option}

\* The filter keeps the owner.
Retained(owner) ==
    LET matches(option) == \E p \in ListedPatterns(option) : isMatch(owner, <<p>>)
    IN  IF mb.ignore # <<>> THEN ~matches(mb.ignore) ELSE matches(mb.include)

\* C23: with --ignore the owners that multi-branch processes are exactly the
\* discovered owners that match none of the listed patterns, with --include
\* exactly those that match some pattern, in the order of their discovery.
C23_FilterKeepsMatchingInOrder ==
    (mb.found # <<>> /\ (mb.ignore # <<>> \/ mb.include # <<>>)) =>
        \E at \in [1..Len(mb.codeowners) -> 1..Len(mb.found)] :
            /\ \A i, j \in DOMAIN at : i < j => at[i] < at[j]
            /\ {at[i] : i \in DOMAIN at} = {k \in 1..Len(mb.found) : Retained(mb.found[k])}
            /\ \A i \in DOMAIN at : mb.codeowners[i] = mb.found[at[i]]

\* Three owners were discovered and --ignore "A, D" has left the second.
C23_Witness ==
    /\ mb.found = <<"A", "B", "D">>
    /\ mb.ignore = <<"A", ",", " ", "D">>
    /\ mb.codeowners = <<"B">>
    /\ mb.pc = "done"
    /\ mb.success = <<"B">>

\* Owners are dropped by --include and the order of the others is kept.
C23_WitnessInclude ==
    /\ mb.found = <<"A", "B", "D">>
    /\ mb.include = <<"A", ",", " ", "D">>
    /\ mb.codeowners = <<"A", "D">>
    /\ mb.pc = "done"
\* --------------------------------------- properties of the empty cases
\* multi-branch has looked for owners on a change-set that is not empty, and
\* no owner is left: none was found, or the filter dropped every one.
OwnerSetEmpty ==
    /\ mb.opId # 0
    /\ mb.pc \notin {"owners", "interrupted"}
    /\ changeSet # {}
    /\ FilterOwners(DiscoverOwners(changeSet, mb.defaultOwner), mb.ignore, mb.include)
          = <<>>

NoFilesCallEnded ==
    /\ BranchCallEnded
    /\ br.entryFiles = {}
    /\ br.err \notin ValidationErrors
    /\ br.sub => mb.pc = "wait"

\* C25: a call of branch() for an owner without files creates no branch and
\* no commit, leaves the current branch, the working tree and the stored
\* records as they were, and returns success = false with the error
\* "No files found for this owner"; the process goes on.
C25_NoFilesIsNoOp ==
    NoFilesCallEnded =>
        /\ br.pc = "returned"
        /\ br.result = [success |-> FALSE, error |-> "No files found for this owner"]
        /\ repo = br.entryRepo
        /\ store = br.entryStore
\* ------------------------------------- properties of the stored record
\* The BranchState has reached the step that the options of its record ask
\* for.
BranchDone(state, b) == IF state.options.push THEN b.pushed ELSE b.committed

\* C26: in a stored record whose currentState is complete, every BranchState
\* without error is pushed if push was requested, and committed otherwise.
C26_CompleteMeansBranchesDone ==
    \A id \in DOMAIN store :
        (store[id] # NoRecord /\ store[id].currentState = "complete") =>
            \A i \in 1..Len(store[id].branches) :
                store[id].branches[i].error = ""
                    => BranchDone(store[id], store[id].branches[i])

\* The stages of a record in their order; failed stands apart.
StageOrder ==
    <<"initializing", "creating-branch", "committing", "pushing", "creating-pr",
      "complete">>

StageRank(stage) == CHOOSE i \in 1..Len(StageOrder) : StageOrder[i] = stage

\* A step of currentState from one stage to another that the order allows.
StageForward(from, to) ==
    \/ to = "failed"
    \/ from # "failed" /\ StageRank(from) <= StageRank(to)

\* Every record that a step finds and leaves in storage moves forward.
StagesMoveForward ==
    \A id \in DOMAIN store :
        (store[id] # NoRecord /\ store'[id] # NoRecord)
            => StageForward(store[id].currentState, store'[id].currentState)

\* C27: the currentState of a stored record only moves forward in the order
\* initializing, creating-branch, committing, pushing, creating-pr, complete,
\* or moves to failed.
C27_StageOnlyMovesForward == [][StagesMoveForward]_vars

\* A BranchState that a step finds and leaves in its record keeps every flag
\* that was set, its files and its owner.
BranchStateKept(before, after) ==
    /\ before.created => after.created
    /\ before.committed => after.committed
    /\ before.pushed => after.pushed
    /\ before.prCreated => after.prCreated
    /\ after.files = before.files
    /\ after.owner = before.owner

BranchStatesKept ==
    \A id \in DOMAIN store :
        (store[id] # NoRecord /\ store'[id] # NoRecord) =>
            \A i \in 1..Len(store[id].branches) :
                /\ i <= Len(store'[id].branches)
                /\ BranchStateKept(store[id].branches[i], store'[id].branches[i])

\* C28: within a stored record no BranchState has created, committed, pushed
\* or prCreated reset from true to false, and none has its files or its
\* owner changed after it was inserted.
C28_BranchStateIsMonotonic == [][BranchStatesKept]_vars

\* ------------------------------------------ properties of the owner list
\* C29: the list of owners for which multi-branch calls branch() holds no
\* owner twice.
C29_OwnersAreDistinct ==
    \A i, j \in 1..Len(mb.codeowners) :
        mb.codeowners[i] = mb.codeowners[j] => i = j

\* ----------------------------------------- properties of the aborted run
\* multi-branch has created its record and has found no changed file.
NoChangedFiles ==
    /\ mb.opId # 0
    /\ mb.pc \notin {"owners", "interrupted"}
    /\ changeSet = {}

\* The process of multi-branch has exited with status 1 after it had created
\* its record.
AbortedAfterCreate == mb.pc = "exited" /\ mb.opId # 0

StageOfStep ==
    [create |-> "creating-branch", add |-> "committing", commit |-> "committing",
     push |-> "pushing", createPr |-> "creating-pr"]

HasBranchState(state, name) == \E i \in 1..Len(state.branches) : state.branches[i].name = name

\* The running call of branch() is about to make a git-mutating call.
AtGitStep == br.pc \in DOMAIN StageOfStep

WritesThenActs ==
    /\ AtGitStep =>
          /\ br.opId # 0
          /\ store[br.opId] # NoRecord
          /\ store[br.opId].currentState = StageOfStep[br.pc]
          /\ HasBranchState(store[br.opId], br.branch)
    /\ repo' # repo => (br.opId # 0 /\ store[br.opId] # NoRecord)

\* C31: write-then-act: in every run of branch or multi-branch the record is
\* stored before the first step that changes the repository, and when a
\* git-mutating step (branch create or checkout, add and commit, push, PR
\* creation) starts, the stored currentState names the stage of that step and
\* a BranchState of the branch at hand is stored.
C31_WriteThenAct == [][WritesThenActs]_vars

C31_Witness ==
    /\ br.pc = "createPr"
    /\ br.sub
    /\ mb.idx = 2
    /\ store[br.opId].currentState = "creating-pr"
    /\ HasBranchState(store[br.opId], br.branch)

\* ------------------------------------ properties of the created branches
\* The operation of the behaviour: its record id and the branches that
\* existed when it began.
RunOpId == IF mb.pc # "idle" THEN mb.opId ELSE br.opId
RunEntryBranches == IF mb.pc # "idle" THEN mb.entryBranches ELSE br.entryBranches

\* The branches that the operation created and that exist.
FreshBranches == IF started THEN repo.branches \ RunEntryBranches ELSE {}

\* The operation is in progress, or it was killed and recover has not run.
RunUnfinished == ~(BranchEnded /\ MultiEnded) \/ ("killed" \in {br.pc, mb.pc} /\ rc = NoRecover)

\* C32: while the operation runs, and after it was killed, every branch that
\* it created and that exists has a stored BranchState with created = true;
\* and when recover without --keep-branches has run to its end after a kill,
\* no branch that the killed operation created exists.
C32_CreatedBranchesAreRecorded ==
    /\ RunUnfinished =>
          \A b \in FreshBranches :
             /\ RunOpId # 0
             /\ store[RunOpId] # NoRecord
             /\ HasBranchState(store[RunOpId], b)
             /\ BranchStateOf(store[RunOpId], b).created
    /\ (RecoveredAfterKill /\ ~rc.keepBranches) => FreshBranches = {}

\* The branch was created and its BranchState says created = true.
C32_RecordedBranch ==
    /\ RunUnfinished
    /\ FreshBranches # {}
    /\ \A b \in FreshBranches : BranchStateOf(store[RunOpId], b).created

\* ------------------------------------- properties of the end of a run
\* The run has ended without error: a standalone call of branch() returned
\* (with its commit, or skipped for an owner without files), or multiBranch
\* returned (after its loop, or early for want of owners); recover has not
\* run since.
RunEndedWithoutError ==
    /\ rc = NoRecover
    /\ \/ mb.pc = "idle" /\ br.pc = "returned"
       \/ mb.pc = "done"

\* The incomplete records that the run of the behaviour created.
IncompleteOfRun ==
    SelectSeq(getIncompleteOperations(store), LAMBDA s : s.id = RunOpId)

\* C33: after a branch or multi-branch run that ends without error,
\* getIncompleteOperations lists no record that the run created.
C33_CleanEndLeavesNothingIncomplete ==
    RunEndedWithoutError => IncompleteOfRun = <<>>

\* A run with commits has ended without error and left no record.
C33_CompletedRun ==
    /\ RunEndedWithoutError
    /\ mb.pc = "done"
    /\ Len(mb.success) > 0
    /\ IncompleteOfRun = <<>>

\* ------------------------------------- properties of the per-owner loop
\* The step in which multiBranch calls branch() for the next owner.
SubOperationStarts == mb.pc = "loop" /\ mb'.pc = "wait"

\* The step in which a sub-operation creates its branch.
SubOperationCreates == br.sub /\ br.pc = "create" /\ br'.newBranchCreated

SequentialFromOriginal ==
    /\ SubOperationStarts =>
          /\ br.pc \in {"idle", "returned"}
          /\ store[mb.opId] # NoRecord
          /\ getCurrentBranch(repo) = store[mb.opId].originalBranch
    /\ (br.sub /\ ~BranchEnded) => mb.pc = "wait"
    /\ SubOperationCreates =>
          /\ getCurrentBranch(repo) = store[mb.opId].originalBranch
          /\ repo'.trees[br.branch] = repo.trees[store[mb.opId].originalBranch]

Owns(owner, f) ==
    \/ owner \in Range(getOwner(f))
    \/ (Len(getOwner(f)) = 0 /\ owner = mb.defaultOwner)

\* The places in the processed owner list of the owners of a file.
ProcessedOwners(f) == {i \in 1..Len(mb.codeowners) : Owns(mb.codeowners[i], f)}

\* The first of the owners of a file in processing order.
FirstOwner(f) ==
    mb.codeowners[CHOOSE i \in ProcessedOwners(f) : \A j \in ProcessedOwners(f) : i <= j]

\* The branches that got a commit with the file during the run.
CommittedIn(f) ==
    {b \in repo.branches :
        \E i \in (Len(mb.entryLog[b]) + 1)..Len(repo.log[b]) : f \in repo.log[b][i]}

StillUncommitted(f) ==
    /\ f \in getChangedFiles(repo)
    /\ repo.wt[f] = EditContent
    /\ CommittedIn(f) = {}

\* The loop of multiBranch is over, no sub-operation has failed, and recover
\* has not run.
RunWithoutFailure ==
    /\ LoopOver
    /\ ~SomeSubFailed
    /\ rc = NoRecover

\* C35: after a multi-branch run in which no sub-operation failed, every file
\* of the change-set with an owner in the processed list is committed, with
\* its edit, in exactly one branch, the branch of the first of its owners in
\* processing order, and is no longer a pending change; every file of the
\* change-set without processed owner is still an uncommitted change on the
\* original branch.
C35_BranchesPartitionChangeSet ==
    RunWithoutFailure =>
        /\ getCurrentBranch(repo) = MainBranch
        /\ \A f \in changeSet :
              IF ProcessedOwners(f) # {}
              THEN /\ CommittedIn(f) = {BranchOf[FirstOwner(f)]}
                   /\ repo.trees[BranchOf[FirstOwner(f)]][f] = EditContent
                   /\ f \notin getChangedFiles(repo)
              ELSE StillUncommitted(f)

\* A file with two processed owners, and a file without processed owner.
C35_Witness ==
    /\ RunWithoutFailure
    /\ Len(mb.codeowners) >= 2
    /\ \E f \in changeSet : Cardinality(ProcessedOwners(f)) = 2
    /\ \E f \in changeSet : ProcessedOwners(f) = {}

\* ------------------------------------- properties of failOperation
\* The step in which the caller of the state store calls failOperation.
FailStep == api.phase = "open" /\ api.stage # "failed" /\ api'.stage = "failed"

\* The record after failOperation: the stage is failed, the BranchState of
\* the branch touched last has the message as its error, and every other
\* BranchState is as before.
FailedFrom(before, after, touched, message) ==
    /\ after = [before EXCEPT !.currentState = "failed", !.branches = after.branches]
    /\ Len(after.branches) = Len(before.branches)
    /\ \A i \in 1..Len(before.branches) :
          after.branches[i] = IF before.branches[i].name = touched
                              THEN [before.branches[i] EXCEPT !.error = message]
                              ELSE before.branches[i]

FailMarksTouchedBranch ==
    /\ FailStep =>
          /\ FailedFrom(store[api.id], store'[api.id], api.touched, "Push failed")
          /\ \A id \in DOMAIN store \ {api.id} : store'[id] = store[id]
    /\ \A id \in DOMAIN store :
          store[id] = NoRecord => failOperation(store, id, "Push failed") = store

\* C36: failOperation(id, message) sets currentState to failed and puts the
\* message as error on the BranchState that updateBranchState touched last
\* (inserted or updated), leaving every other BranchState and record as it
\* was; without BranchState only the stage changes; for an id without stored
\* record nothing is written.
C36_FailMarksLastTouchedBranch == [][FailMarksTouchedBranch]_vars

\* failOperation was called when the branch touched last was also the branch
\* inserted last.
C36_LastInsertedTouched ==
    /\ api.phase = "open"
    /\ api.stage = "failed"
    /\ Len(api.order) = 2
    /\ api.touched = api.order[2]
    /\ BranchStateOf(store[api.id], api.touched).error = "Push failed"

\* ------------------------------------- properties of a concurrent recover
\* The step is a run of recover while the command is in progress.
RecoverBesideRun == ~Idle /\ rc' # rc

RecoverLeavesRunAlone ==
    RecoverBesideRun =>
        /\ rc'.record.id # RunOpId
        /\ repo' = repo
        /\ store'[RunOpId] = store[RunOpId]

\* C37: when recover runs while a branch or multi-branch operation is in
\* progress in the same working directory, it does not select the record of
\* that operation, checks out no branch, deletes no branch and does not
\* delete the record.
C37_RecoverSkipsRunningOperation == [][RecoverLeavesRunAlone]_vars

\* recover has cleaned up after an operation that had failed.
C37_RecoveredAfterFailure ==
    /\ br.pc = "exited"
    /\ rc.outcome = "recovered"
    /\ rc.record.currentState = "failed"

\* ------------------------------------- properties of the deleted branches
\* The branches that the step deletes.
DeletedBranches == repo.branches \ repo'.branches

DeletesOnlyOwnBranch ==
    (rc' = rc) =>
        \A b \in DeletedBranches :
           /\ b = br.branch
           /\ br.newBranchCreated
           /\ b \notin br.entryBranches
           /\ b # br.originalBranch

\* C38: a step of a branch operation deletes a branch only if the same call
\* of branch() created it: a branch that existed when the call began (one
\* reused with --append, or the original branch) is never deleted, whichever
\* step fails and whatever keepBranchOnFailure is.
C38_CleanupDeletesOnlyCreatedBranch == [][DeletesOnlyOwnBranch]_vars

\* The push to a branch reused with --append has failed, without
\* keepBranchOnFailure, and the call has ended.
C38_Witness ==
    /\ br.pc \in {"returned", "exited"}
    /\ br.append
    /\ br.branchAlreadyExists
    /\ br.err = "Push failed"
    /\ ~br.keepBranchOnFailure
    /\ br.branch \in br.entryBranches
    /\ branchExists(repo, br.branch)

\* ------------------------------------- properties of the PR summary
\* The step in which multiBranch takes note of a returned sub-operation.
NotesSubOperation == mb.pc = "wait" /\ mb'.pc \in {"loop", "complete"}

PrSuccessNeedsPr ==
    (NotesSubOperation /\ (mb.pr \/ mb.draftPr)) =>
        /\ mb'.prSuccess = IF br.prCreated
                           THEN Append(mb.prSuccess, mb.codeowners[mb.idx])
                           ELSE mb.prSuccess
        /\ (br.result.success /\ br.prFailed) =>
              /\ mb'.success = Append(mb.success, mb.codeowners[mb.idx])
              /\ mb'.prSuccess = mb.prSuccess

\* C39: with --pr or --draft-pr, multiBranch puts an owner on the PR-success
\* list only if a pull request was created for its branch: an owner whose
\* branch was committed and pushed and whose PR creation failed is a branch
\* success and not a PR success.
C39_PrSuccessMeansPrCreated == [][PrSuccessNeedsPr]_vars

\* An owner whose pull request was created is on both lists.
C39_PrCounted ==
    /\ LoopOver
    /\ mb.pr
    /\ Len(mb.prSuccess) > 0
    /\ \A i \in 1..Len(mb.prSuccess) : BranchOf[mb.prSuccess[i]] \in repo.prs

\* ------------------------------------- properties of termination
\* multiBranch has returned or the process has exited.
MultiTerminated == mb.pc \in {"done", "exited"}

\* multiBranch has returned after its loop.
LoopCompleted == mb.pc = "done" /\ Len(mb.codeowners) > 0

\* The loop has called branch() for every owner of the processed list.
AllOwnersStarted ==
    /\ mb.idx = Len(mb.codeowners) + 1
    /\ Len(mb.subResults) = Len(mb.codeowners)

\* C40: when every external call returns, every multi-branch run terminates,
\* and a run that returns after its loop has called branch() for every owner
\* of the processed list, whatever the outcome of the earlier owners.
C40_MultiBranchTerminates ==
    /\ (mb.pc = "validate") ~> MultiTerminated
    /\ [](LoopCompleted => AllOwnersStarted)

\* The run has returned after a loop whose first sub-operation failed.
C40_Witness ==
    /\ LoopCompleted
    /\ Len(mb.codeowners) >= 2
    /\ IsFailure(mb.subResults[1])
    /\ AllOwnersStarted

====
